---- MODULE Spec2Model ----
(***************************************************************************)
(* Recursive Graph Art: the graph model (graph.js), the two editors        *)
(* (the WebGL editor main.js and the canvas editor), the layer renderer    *)
(* (renderer.js) and the two fragment-shader evaluators (shaders.js,       *)
(* shaders-new.js), as state machines.                                     *)
(*                                                                         *)
(* Encodings.  JS null is Null; a missing JSON field is a missing key of   *)
(* the element (a function over its present field names).  scale is kept   *)
(* in halves: ScaleOne stands for 1.0, 1 for 0.5, -2 for -1.0.             *)
(* radialRadius is in whole viewport units, rotation in degrees.           *)
(***************************************************************************)
EXTENDS Integers, Sequences, FiniteSets, TLC

\* ------------------------------------------------------------- bounds
MaxId == 2
MaxDocLen == 3
MaxParamDocLen == 2

Quarter == 1
StackLimit == 6
MaxPixelId == 14
MaxRenderNodes == 3
MaxEdits == 1
MaxApiId == 1
MaxSupersample == 2
MaxVariedPixels == 3
MaxShaderNodes == 5
MaxCoord == 2
MaxStackNodes == 3
MaxRadius == 2
MaxSeed == 3
MaxDepth == 57
MaxCycleNodes == 3

\* ---------------------------------------------------------- constants
Null == -1
ScaleOne == 2
Sentinel == -1
TwoPow16 == 65536
MAX_NODES == 256
PaletteLength == 28
RootRadius == 2
MaxCopies == 32
LimitedPasses == 8
EvaluatePasses == 32
MAX_STACK == 64
MAX_ITERATIONS == 1000

Ids == 0..MaxId

EmptyFn == [x \in {} |-> 0]

Has(e, k) == k \in DOMAIN e

\* ------------------------------------------------------------- Node
Node(id, baseParent, transformParent, scale, radialRadius, radialCount, rotation) ==
    [id |-> id, baseParent |-> baseParent, transformParent |-> transformParent,
     scale |-> scale, radialRadius |-> radialRadius, radialCount |-> radialCount,
     rotation |-> rotation, comment |-> Null]

\* a slip of isRoot: || for &&
isRoot_EitherNull(node) == node.baseParent = Null \/ node.transformParent = Null

isRoot(node) == node.baseParent = Null /\ node.transformParent = Null

\* ------------------------------------------------------------- Graph
\* A Graph is its Map (insertion order + value per key) and rootNode (an id).
NewGraph == [order |-> <<>>, node |-> EmptyFn, rootNode |-> Null]

hasNode(g, id) == id \in DOMAIN g.node

addNode(g, node) ==
    IF hasNode(g, node.id)
    THEN [g EXCEPT !.node = [i \in DOMAIN g.node |-> IF i = node.id THEN node ELSE g.node[i]]]
    ELSE [g EXCEPT !.order = Append(g.order, node.id),
                   !.node = [i \in DOMAIN g.node \cup {node.id} |->
                                IF i = node.id THEN node ELSE g.node[i]]]

getAllNodes(g) == [i \in 1..Len(g.order) |-> g.node[g.order[i]]]

mapDelete(g, id) ==
    [g EXCEPT !.order = SelectSeq(g.order, LAMBDA i : i # id),
              !.node = [i \in DOMAIN g.node \ {id} |-> g.node[i]]]

\* --------------------------------------------------- Graph.detectCycles
\* a slip of dfs: the visited test placed before the recursion-stack test
RECURSIVE dfs_VisitedFirst(_, _, _)
dfs_VisitedFirst(g, nodeId, st) ==
    IF st.thrown THEN st
    ELSE IF nodeId \in st.visited THEN st
    ELSE IF nodeId \in st.recursionStack THEN [st EXCEPT !.thrown = TRUE]
    ELSE LET s1 == [st EXCEPT !.visited = @ \cup {nodeId},
                              !.recursionStack = @ \cup {nodeId}]
             node == g.node[nodeId]
             s2 == IF node.baseParent # Null
                   THEN dfs_VisitedFirst(g, node.baseParent, s1) ELSE s1
             s3 == IF node.transformParent # Null /\ ~s2.thrown
                   THEN dfs_VisitedFirst(g, node.transformParent, s2) ELSE s2
         IN IF s3.thrown THEN s3
            ELSE [s3 EXCEPT !.recursionStack = @ \ {nodeId}]

\* a slip of dfs: the node is left on the recursion stack when dfs returns
RECURSIVE dfs_NoUnwind(_, _, _)
dfs_NoUnwind(g, nodeId, st) ==
    IF st.thrown THEN st
    ELSE IF nodeId \in st.recursionStack THEN [st EXCEPT !.thrown = TRUE]
    ELSE IF nodeId \in st.visited THEN st
    ELSE LET s1 == [st EXCEPT !.visited = @ \cup {nodeId},
                              !.recursionStack = @ \cup {nodeId}]
             node == g.node[nodeId]
             s2 == IF node.baseParent # Null
                   THEN dfs_NoUnwind(g, node.baseParent, s1) ELSE s1
             s3 == IF node.transformParent # Null /\ ~s2.thrown
                   THEN dfs_NoUnwind(g, node.transformParent, s2) ELSE s2
         IN s3

RECURSIVE dfs(_, _, _)
dfs(g, nodeId, st) ==
    IF st.thrown THEN st
    ELSE IF nodeId \in st.recursionStack THEN [st EXCEPT !.thrown = TRUE]
    ELSE IF nodeId \in st.visited THEN st
    ELSE LET s1 == [st EXCEPT !.visited = @ \cup {nodeId},
                              !.recursionStack = @ \cup {nodeId}]
             node == g.node[nodeId]
             s2 == IF node.baseParent # Null THEN dfs(g, node.baseParent, s1) ELSE s1
             s3 == IF node.transformParent # Null /\ ~s2.thrown
                   THEN dfs(g, node.transformParent, s2) ELSE s2
         IN IF s3.thrown THEN s3
            ELSE [s3 EXCEPT !.recursionStack = @ \ {nodeId}]

RECURSIVE detectCyclesFrom(_, _, _)
detectCyclesFrom(g, i, st) ==
    IF i > Len(g.order) \/ st.thrown THEN st
    ELSE detectCyclesFrom(g, i + 1,
            IF g.order[i] \notin st.visited THEN dfs(g, g.order[i], st) ELSE st)

\* TRUE iff detectCycles throws
detectCycles(g) ==
    detectCyclesFrom(g, 1, [visited |-> {}, recursionStack |-> {}, thrown |-> FALSE]).thrown

\* ----------------------------------------------------- Graph.canReachRoot
RECURSIVE canReachRoot(_, _, _)
canReachRoot(g, nodeId, visited) ==
    IF nodeId \in visited THEN FALSE
    ELSE LET v == visited \cup {nodeId}
             node == g.node[nodeId]
         IN IF isRoot(node) THEN TRUE
            ELSE (node.baseParent # Null /\ canReachRoot(g, node.baseParent, v))
                 \/ (node.transformParent # Null /\ canReachRoot(g, node.transformParent, v))

\* TRUE iff validateConnectivity throws
validateConnectivity(g) ==
    \E i \in 1..Len(g.order) :
        /\ ~isRoot(g.node[g.order[i]])
        /\ ~canReachRoot(g, g.order[i], {})

\* ---------------------------------------------------------- Graph.validate
\* The reference loop of validate: the first error in Map order, "" if none.
\* a slip of the reference loop: the self-reference tests left out
RECURSIVE checkReferences_NoSelfTest(_, _)
checkReferences_NoSelfTest(g, i) ==
    IF i > Len(g.order) THEN ""
    ELSE LET node == g.node[g.order[i]] IN
         IF node.baseParent # Null /\ ~hasNode(g, node.baseParent)
            THEN "DanglingReferenceError"
         ELSE IF node.transformParent # Null /\ ~hasNode(g, node.transformParent)
            THEN "DanglingReferenceError"
         ELSE checkReferences_NoSelfTest(g, i + 1)

RECURSIVE checkReferences(_, _)
checkReferences(g, i) ==
    IF i > Len(g.order) THEN ""
    ELSE LET node == g.node[g.order[i]] IN
         IF node.baseParent # Null /\ ~hasNode(g, node.baseParent)
            THEN "DanglingReferenceError"
         ELSE IF node.transformParent # Null /\ ~hasNode(g, node.transformParent)
            THEN "DanglingReferenceError"
         ELSE IF node.baseParent = node.id THEN "SelfReferenceError"
         ELSE IF node.transformParent = node.id THEN "SelfReferenceError"
         ELSE checkReferences(g, i + 1)

rootNodes(g) == SelectSeq(g.order, LAMBDA i : isRoot(g.node[i]))

\* validate: the error thrown ("" when it returns) and the graph it leaves
\* (rootNode is assigned before the reference checks).
validate(g) ==
    LET roots == rootNodes(g) IN
    IF Len(roots) = 0 THEN [err |-> "RootCountError", graph |-> g]
    ELSE IF Len(roots) > 1 THEN [err |-> "RootCountError", graph |-> g]
    ELSE LET g1 == [g EXCEPT !.rootNode = roots[1]]
             refs == checkReferences(g1, 1)
         IN IF refs # "" THEN [err |-> refs, graph |-> g1]
            ELSE IF detectCycles(g1) THEN [err |-> "CycleError", graph |-> g1]
            ELSE IF validateConnectivity(g1) THEN [err |-> "DisconnectedNodeError", graph |-> g1]
            ELSE [err |-> "", graph |-> g1]

\* ---------------------------------------------------------- Graph.fromJSON
\* a slip of fromJSON: a scale of 0 is kept
nodeFromData_KeepZero(nodeData) ==
    IF ~Has(nodeData, "id") THEN [err |-> "SchemaError"]
    ELSE LET scale == IF Has(nodeData, "scale") THEN nodeData.scale ELSE ScaleOne
             radialRadius == IF Has(nodeData, "radial_radius") THEN nodeData.radial_radius ELSE 0
         IN IF scale < 0 THEN [err |-> "NegativeParameterError"]
            ELSE IF radialRadius < 0 THEN [err |-> "NegativeParameterError"]
            ELSE [err |-> "",
                  node |-> Node(nodeData.id,
                                IF Has(nodeData, "base_parent") THEN nodeData.base_parent ELSE Null,
                                IF Has(nodeData, "transform_parent")
                                THEN nodeData.transform_parent ELSE Null,
                                scale, radialRadius,
                                IF Has(nodeData, "radial_count") THEN nodeData.radial_count ELSE 0,
                                IF Has(nodeData, "rotation") THEN nodeData.rotation ELSE 0)]

\* One element of the nodes array: the node it makes, or the error it throws.
nodeFromData(nodeData) ==
    IF ~Has(nodeData, "id") THEN [err |-> "SchemaError"]
    ELSE LET id == nodeData.id
             baseParent == IF Has(nodeData, "base_parent") THEN nodeData.base_parent ELSE Null
             transformParent == IF Has(nodeData, "transform_parent")
                                THEN nodeData.transform_parent ELSE Null
             scale0 == IF Has(nodeData, "scale") THEN nodeData.scale ELSE 0
             scale == IF scale0 = 0 THEN ScaleOne ELSE scale0
             radialRadius == IF Has(nodeData, "radial_radius") THEN nodeData.radial_radius ELSE 0
             radialCount == IF Has(nodeData, "radial_count") THEN nodeData.radial_count ELSE 0
             rotation == IF Has(nodeData, "rotation") THEN nodeData.rotation ELSE 0
         IN IF scale < 0 THEN [err |-> "NegativeParameterError"]
            ELSE IF radialRadius < 0 THEN [err |-> "NegativeParameterError"]
            ELSE [err |-> "",
                  node |-> [Node(id, baseParent, transformParent,
                                 scale, radialRadius, radialCount, rotation)
                               EXCEPT !.comment = IF Has(nodeData, "comment")
                                                  THEN nodeData.comment ELSE Null]]

RECURSIVE firstPass(_, _, _)
firstPass(nodes, i, g) ==
    IF i > Len(nodes) THEN [err |-> "", graph |-> g]
    ELSE LET r == nodeFromData(nodes[i]) IN
         IF r.err # "" THEN [err |-> r.err, graph |-> g]
         ELSE firstPass(nodes, i + 1, addNode(g, r.node))

\* fromJSON: err = "" and the graph returned, or the error thrown.
fromJSON(jsonData) ==
    IF ~jsonData.hasNodes THEN [err |-> "SchemaError", graph |-> NewGraph]
    ELSE LET p == firstPass(jsonData.nodes, 1, NewGraph) IN
         IF p.err # "" THEN p ELSE validate(p.graph)

\* ================================================================ Renderer
\* The canvas is CanvasSize x CanvasSize pixels over the viewport [-2,2]^2, so
\* one viewport unit is Quarter pixels.  A matrix is a function over the
\* linear pixel index y * CanvasSize + x.  The colour canvas of a layer is not
\* kept: applyFinalColors overwrites every pixel from the id matrix alone.
\* Rotations are multiples of 90 degrees and radialCount is 0, 1, 2 or 4, so
\* that every sine and cosine is 0, 1 or -1 and the arithmetic is exact.
CanvasSize == 4 * Quarter
center == CanvasSize \div 2
Pixels == 0..(CanvasSize * CanvasSize - 1)
pixelX(i) == i % CanvasSize
pixelY(i) == i \div CanvasSize

ToUint32(v) ==
    LET hi == (v \div TwoPow16) % TwoPow16
        lo == v % TwoPow16
    IN  IF hi >= TwoPow16 \div 2 THEN (hi - TwoPow16) * TwoPow16 + lo
        ELSE hi * TwoPow16 + lo

Cos90(d) == CASE d % 360 = 0 -> 1 [] d % 360 = 90 -> 0 [] d % 360 = 180 -> -1 [] d % 360 = 270 -> 0
Sin90(d) == CASE d % 360 = 0 -> 0 [] d % 360 = 90 -> 1 [] d % 360 = 180 -> 0 [] d % 360 = 270 -> -1

mathToPixelDistance(distance) == distance * Quarter

\* distance along one axis from the disc centre to the pixel square [p, p+1]
axisGap(p) == IF p + 1 <= center THEN center - (p + 1) ELSE IF p >= center THEN p - center ELSE 0

\* ctx.arc + fill with antialiasing: alpha > 0 where the pixel square meets
\* the open disc of radius mathToPixelDistance(1.0) around the centre
rootAlphaPositive(i) ==
    axisGap(pixelX(i)) * axisGap(pixelX(i)) + axisGap(pixelY(i)) * axisGap(pixelY(i))
        < mathToPixelDistance(1) * mathToPixelDistance(1)

DefaultColorModes ==
    [evenParity |-> "regular", oddParity |-> "alternative",
     firstIndex |-> "inherit", lastIndex |-> "inherit"]

NewRenderer ==
    [graphSet |-> FALSE, layerCache |-> EmptyFn, nextPixelId |-> 0,
     lastIdMatrix |-> <<>>, lastDepthMatrix |-> <<>>, computed |-> [i \in {} |-> 0],
     colorModes |-> DefaultColorModes, useColor |-> FALSE]

setGraph(r) == [r EXCEPT !.graphSet = TRUE]

setColorModes(r, modes) == [r EXCEPT !.colorModes = modes]

\* one palette stands for every ColorPalette
setColorPalette(r) == [r EXCEPT !.useColor = TRUE]

setUseColor(r, useColor) == [r EXCEPT !.useColor = useColor]

\* a slip of clearCache: the identity counter starts again
clearCache_ResetCounter(r) ==
    [r EXCEPT !.layerCache = EmptyFn, !.computed = EmptyFn, !.nextPixelId = 0]

clearCache(r) == [r EXCEPT !.layerCache = EmptyFn, !.computed = EmptyFn]

\* ------------------------------------------------ Renderer.getRootLayers
\* a slip of getRootLayers: the counter advances by one
getRootLayers_StepOne(r) ==
    [threw |-> "",
     layers |-> << [idMatrix |-> [i \in Pixels |-> IF rootAlphaPositive(i)
                                                     THEN ToUint32(r.nextPixelId) ELSE Sentinel],
                    depth |-> 0, path |-> <<>>] >>,
     r |-> [r EXCEPT !.nextPixelId = @ + 1]]

\* a slip of getRootLayers: the identity is taken from the counter inside the
\* pixel loop, one for each pixel of the circle
getRootLayers_PerPixel(r) ==
    [threw |-> "",
     layers |-> << [idMatrix |-> [i \in Pixels |-> IF rootAlphaPositive(i)
                                                     THEN ToUint32(r.nextPixelId + 2 * i)
                                                     ELSE Sentinel],
                    depth |-> 0, path |-> <<>>] >>,
     r |-> [r EXCEPT !.nextPixelId = @ + 2 * Cardinality(Pixels)]]

getRootLayers(r) ==
    LET rootId == r.nextPixelId
        idMatrix == [i \in Pixels |-> IF rootAlphaPositive(i) THEN ToUint32(rootId) ELSE Sentinel]
    IN [threw |-> "",
        layers |-> << [idMatrix |-> idMatrix, depth |-> 0, path |-> <<>>] >>,
        r |-> [r EXCEPT !.nextPixelId = @ + 2]]

\* -------------------------------------------------- Renderer.reassignIds
\* a slip of the pixel loop: the counter is not advanced
RECURSIVE reassignLoop_SharedId(_, _, _, _, _)
reassignLoop_SharedId(sourceIdMatrix, flipParity, i, idMapping, next) ==
    IF i \notin Pixels THEN [idMapping |-> idMapping, next |-> next]
    ELSE IF sourceIdMatrix[i] = Sentinel \/ sourceIdMatrix[i] \in DOMAIN idMapping
         THEN reassignLoop_SharedId(sourceIdMatrix, flipParity, i + 1, idMapping, next)
         ELSE reassignLoop_SharedId(sourceIdMatrix, flipParity, i + 1,
                  idMapping @@ (sourceIdMatrix[i] :>
                      ToUint32(next + (IF flipParity THEN 1 - (sourceIdMatrix[i] % 2)
                                       ELSE sourceIdMatrix[i] % 2))),
                  next)

\* the idMapping built by the pixel loop, and the counter it leaves
RECURSIVE reassignLoop(_, _, _, _, _)
reassignLoop(sourceIdMatrix, flipParity, i, idMapping, next) ==
    IF i \notin Pixels THEN [idMapping |-> idMapping, next |-> next]
    ELSE IF sourceIdMatrix[i] = Sentinel \/ sourceIdMatrix[i] \in DOMAIN idMapping
         THEN reassignLoop(sourceIdMatrix, flipParity, i + 1, idMapping, next)
         ELSE LET originalParity == sourceIdMatrix[i] % 2
                  newParity == IF flipParity THEN 1 - originalParity ELSE originalParity
                  newId == next + newParity
              IN reassignLoop(sourceIdMatrix, flipParity, i + 1,
                              idMapping @@ (sourceIdMatrix[i] :> ToUint32(newId)), next + 2)

\* newIdMatrix as the loop fills it, with the counter after the loop
reassigned(sourceIdMatrix, l) ==
    [idMatrix |-> [i \in Pixels |-> IF sourceIdMatrix[i] = Sentinel THEN Sentinel
                                    ELSE l.idMapping[sourceIdMatrix[i]]],
     next |-> l.next]

\* a slip of reassignIds: flipParity ignored
reassignIds_KeepParity(sourceIdMatrix, flipParity, next) ==
    reassigned(sourceIdMatrix, reassignLoop(sourceIdMatrix, FALSE, 0, EmptyFn, next))

reassignIds(sourceIdMatrix, flipParity, next) ==
    reassigned(sourceIdMatrix, reassignLoop(sourceIdMatrix, flipParity, 0, EmptyFn, next))

\* ------------------------------------- Renderer.transformIdMatrixDirect
\* the source id one destination pixel samples (Sentinel when it samples none)
sampleSource(sourceIdMatrix, destIndex, scale, rotationDegrees, radiusPixels, placementAngleDegrees) ==
    LET cos == Cos90(-rotationDegrees)
        sin == Sin90(-rotationDegrees)
        placementX == radiusPixels * Cos90(placementAngleDegrees)
        placementY == radiusPixels * Sin90(placementAngleDegrees)
        x == pixelX(destIndex) - center - placementX
        y == pixelY(destIndex) - center - placementY
        rotX == x * cos - y * sin
        rotY == x * sin + y * cos
        \* finalX = rotX / (scale / ScaleOne) + center = numX / scale
        numX == ScaleOne * rotX + center * scale
        numY == ScaleOne * rotY + center * scale
    IN IF scale = 0 THEN Sentinel
       ELSE IF numX >= 0 /\ numX < CanvasSize * scale /\ numY >= 0 /\ numY < CanvasSize * scale
       THEN LET roundX == (2 * numX + scale) \div (2 * scale)
                roundY == (2 * numY + scale) \div (2 * scale)
                srcIndex == roundY * CanvasSize + roundX
            IN IF srcIndex >= 0 /\ srcIndex < CanvasSize * CanvasSize
               THEN sourceIdMatrix[srcIndex] ELSE Sentinel
       ELSE Sentinel

transformIdMatrixDirect(sourceIdMatrix, resultIdMatrix, scale, rotationDegrees, radiusPixels, placementAngleDegrees) ==
    [destIndex \in Pixels |->
        IF resultIdMatrix[destIndex] # Sentinel THEN resultIdMatrix[destIndex]
        ELSE sampleSource(sourceIdMatrix, destIndex, scale, rotationDegrees,
                          radiusPixels, placementAngleDegrees)]

\* ---------------------------------------- Renderer.applyTransformations
RECURSIVE radialLoop(_, _, _, _, _, _, _)
radialLoop(sourceIdMatrix, resultIdMatrix, i, scale, radialRadius, radialCount, rotation) ==
    IF i >= radialCount THEN resultIdMatrix
    ELSE LET userAngle == (i * 360) \div radialCount
             placementAngle == userAngle - 90
             radiusPixels == mathToPixelDistance(radialRadius)
         IN radialLoop(sourceIdMatrix,
                       transformIdMatrixDirect(sourceIdMatrix, resultIdMatrix, scale,
                                               rotation + userAngle, radiusPixels, placementAngle),
                       i + 1, scale, radialRadius, radialCount, rotation)

applyTransformations(sourceIdMatrix, scale, radialRadius, radialCount, rotation) ==
    LET blank == [i \in Pixels |-> Sentinel] IN
    IF radialCount = 0
    THEN transformIdMatrixDirect(sourceIdMatrix, blank, scale, rotation, 0, 0)
    ELSE radialLoop(sourceIdMatrix, blank, 0, scale, radialRadius, radialCount, rotation)

\* the source position transformIdMatrixDirect computes for a destination
\* position, before the bounds check and the rounding: <<finalX, finalY>>
sourcePosition(dest, scale, rotationDegrees, radiusPixels, placementAngleDegrees) ==
    LET x == dest[1] - center - radiusPixels * Cos90(placementAngleDegrees)
        y == dest[2] - center - radiusPixels * Sin90(placementAngleDegrees)
        rotX == x * Cos90(-rotationDegrees) - y * Sin90(-rotationDegrees)
        rotY == x * Sin90(-rotationDegrees) + y * Cos90(-rotationDegrees)
    IN << (ScaleOne * rotX) \div scale + center, (ScaleOne * rotY) \div scale + center >>

\* the source position of the call applyTransformations makes for copy i
\* (for the only call when radialCount is 0)
resampleForCopy(dest, scale, radialRadius, radialCount, rotation, i) ==
    IF radialCount = 0 THEN sourcePosition(dest, scale, rotation, 0, 0)
    ELSE sourcePosition(dest, scale, rotation + (i * 360) \div radialCount,
                        mathToPixelDistance(radialRadius), (i * 360) \div radialCount - 90)

\* where the canvas transform applyTransformations sets up for copy i draws
\* the source position src: the ctx calls apply to a point last call first
canvasForward(src, scale, radialRadius, radialCount, rotation, i) ==
    LET sx == (scale * (src[1] - center)) \div ScaleOne
        sy == (scale * (src[2] - center)) \div ScaleOne
        angle == IF radialCount > 1 THEN rotation + (i * 360) \div radialCount ELSE rotation
        rx == sx * Cos90(angle) - sy * Sin90(angle)
        ry == sx * Sin90(angle) + sy * Cos90(angle)
        placementAngle == (i * 360) \div radialCount - 90
    IN IF radialCount = 0 THEN << rx + center, ry + center >>
       ELSE << rx + mathToPixelDistance(radialRadius) * Cos90(placementAngle) + center,
               ry + mathToPixelDistance(radialRadius) * Sin90(placementAngle) + center >>

\* ------------------------- Renderer.getNodeLayers / getNonRootLayers
\* Every call returns [threw, layers, r]: the exception thrown ("" for none),
\* the layer list, and the renderer as the call leaves it.  graph.getNode of
\* a null or missing id is undefined, and reading its id is a TypeError.  A
\* call nested deeper than StackLimit overflows the call stack (RangeError).
\* computed[id] counts the completed computations of id since the last
\* clearCache (2 stands for two or more); path lists the parent edges from
\* the node down to the root layer.
RECURSIVE getNodeLayers(_, _, _, _)
RECURSIVE getNonRootLayers(_, _, _, _)

Threw(kind, r) == [threw |-> kind, layers |-> <<>>, r |-> r]

\* this.layerCache.set(node.id, layers)
cacheSet(r, id, layers) ==
    [r EXCEPT !.layerCache = [i \in DOMAIN r.layerCache \cup {id} |->
                                 IF i = id THEN layers ELSE r.layerCache[i]],
              !.computed = [i \in DOMAIN r.computed \cup {id} |->
                               IF i = id
                               THEN (IF id \in DOMAIN r.computed THEN 2 ELSE 1)
                               ELSE r.computed[i]]]

\* getNodeLayers(graph.getNode(id)) as getNonRootLayers calls it
getParentLayers(r, g, id, depth) ==
    IF id = Null \/ ~hasNode(g, id) THEN Threw("TypeError", r)
    ELSE IF depth > StackLimit THEN Threw("RangeError", r)
    ELSE getNodeLayers(r, g, g.node[id], depth)

\* a slip of getNodeLayers: the computed list is returned without being cached
cacheLayers_NoStore(node, res) == res

\* the tail of getNodeLayers: cache the computed list and return it
cacheLayers(node, res) ==
    IF res.threw # "" THEN res
    ELSE [threw |-> "", layers |-> res.layers, r |-> cacheSet(res.r, node.id, res.layers)]

\* a slip of getNodeLayers: the cache is never consulted
getNodeLayers_NoCacheCheck(r, g, node, depth) ==
    cacheLayers(node, IF isRoot(node) THEN getRootLayers(r)
                      ELSE getNonRootLayers(r, g, node, depth))

getNodeLayers(r, g, node, depth) ==
    IF node.id \in DOMAIN r.layerCache
    THEN [threw |-> "", layers |-> r.layerCache[node.id], r |-> r]
    ELSE cacheLayers(node, IF isRoot(node) THEN getRootLayers(r)
                           ELSE getNonRootLayers(r, g, node, depth))

\* one element of a mapped layer list: acc is [layers, next], the list built
\* so far and the identity counter
mappedLayer(acc, layer, re, edge, depth) ==
    [layers |-> Append(acc.layers, [idMatrix |-> re.idMatrix, depth |-> depth,
                                    path |-> <<edge>> \o layer.path]),
     next |-> re.next]

\* a slip of the base map: the base layers are given newDepth as well
RECURSIVE mapBaseLayers_Deeper(_, _, _)
mapBaseLayers_Deeper(layers, i, acc) ==
    IF i > Len(layers) THEN acc
    ELSE mapBaseLayers_Deeper(layers, i + 1,
            mappedLayer(acc, layers[i], reassignIds(layers[i].idMatrix, FALSE, acc.next),
                        "base", layers[i].depth + 1))

\* baseParentLayers.map(reassignIds(.., false))
RECURSIVE mapBaseLayers(_, _, _)
mapBaseLayers(layers, i, acc) ==
    IF i > Len(layers) THEN acc
    ELSE mapBaseLayers(layers, i + 1,
            mappedLayer(acc, layers[i], reassignIds(layers[i].idMatrix, FALSE, acc.next),
                        "base", layers[i].depth))

\* transformLayers.map(applyTransformations, reassignIds(.., true))
RECURSIVE mapTransformLayers(_, _, _, _)
mapTransformLayers(layers, i, acc, node) ==
    IF i > Len(layers) THEN acc
    ELSE mapTransformLayers(layers, i + 1,
            mappedLayer(acc, layers[i],
                        reassignIds(applyTransformations(layers[i].idMatrix, node.scale,
                                                         node.radialRadius, node.radialCount,
                                                         node.rotation),
                                    TRUE, acc.next),
                        "transform", layers[i].depth + 1),
            node)

\* a slip of the return statement: the transformed layers come first
combinedLayers_TransformFirst(baseLayers, r, transformedLayers) ==
    [threw |-> "", layers |-> transformedLayers.layers \o baseLayers,
     r |-> [r EXCEPT !.nextPixelId = transformedLayers.next]]

\* getNonRootLayers from the return statement on: the combined list
combinedLayers(baseLayers, r, transformedLayers) ==
    [threw |-> "", layers |-> baseLayers \o transformedLayers.layers,
     r |-> [r EXCEPT !.nextPixelId = transformedLayers.next]]

\* getNonRootLayers once the transform parent's layers are there
withTransformLayers(node, baseLayers, transform) ==
    IF transform.threw # "" THEN transform
    ELSE combinedLayers(baseLayers, transform.r,
            mapTransformLayers(transform.layers, 1,
                               [layers |-> <<>>, next |-> transform.r.nextPixelId], node))

\* getNonRootLayers once the base layers are re-identified
withReassignedBase(r, g, node, depth, baseLayers) ==
    withTransformLayers(node, baseLayers.layers,
        getParentLayers([r EXCEPT !.nextPixelId = baseLayers.next], g,
                        node.transformParent, depth + 1))

\* a slip of reassignIds in the base map: the new identities are written into
\* the matrices of the base parent's cached layers
withBaseLayers_InPlace(g, node, depth, base) ==
    IF base.threw # "" THEN base
    ELSE LET baseLayers == mapBaseLayers(base.layers, 1,
                               [layers |-> <<>>, next |-> base.r.nextPixelId])
         IN withReassignedBase(
                [base.r EXCEPT !.layerCache[node.baseParent] =
                    [i \in 1..Len(@) |-> [@[i] EXCEPT !.idMatrix = baseLayers.layers[i].idMatrix]]],
                g, node, depth, baseLayers)

\* getNonRootLayers once the base parent's layers are there
withBaseLayers(g, node, depth, base) ==
    IF base.threw # "" THEN base
    ELSE withReassignedBase(base.r, g, node, depth,
            mapBaseLayers(base.layers, 1, [layers |-> <<>>, next |-> base.r.nextPixelId]))

getNonRootLayers(r, g, node, depth) ==
    IF ~r.graphSet THEN Threw("Graph not set in renderer", r)
    ELSE withBaseLayers(g, node, depth, getParentLayers(r, g, node.baseParent, depth + 1))

\* ---------------------------------------------------- Renderer.renderNode
\* the composite of the layers in order: the last non-sentinel id wins
RECURSIVE compositeLayers(_, _, _, _)
compositeLayers(layers, i, finalIdMatrix, finalDepthMatrix) ==
    IF i > Len(layers) THEN [idMatrix |-> finalIdMatrix, depthMatrix |-> finalDepthMatrix]
    ELSE compositeLayers(layers, i + 1,
            [p \in Pixels |-> IF layers[i].idMatrix[p] # Sentinel
                              THEN layers[i].idMatrix[p] ELSE finalIdMatrix[p]],
            [p \in Pixels |-> IF layers[i].idMatrix[p] # Sentinel
                              THEN layers[i].depth % 256 ELSE finalDepthMatrix[p]])

\* this.lastIdMatrix = finalIdMatrix; this.lastDepthMatrix = finalDepthMatrix
storeMatrices(r, final) ==
    [threw |-> "",
     r |-> [r EXCEPT !.lastIdMatrix = final.idMatrix, !.lastDepthMatrix = final.depthMatrix]]

\* renderNode from the composite on
compositeAndStore(res) ==
    IF res.threw # "" THEN [threw |-> res.threw, r |-> res.r]
    ELSE storeMatrices(res.r, compositeLayers(res.layers, 1, [p \in Pixels |-> Sentinel],
                                              [p \in Pixels |-> 0]))

\* renderNode(node, canvas): [threw, r]
renderNode(r, g, node) == compositeAndStore(getNodeLayers(r, g, node, 1))

\* ------------------------------------------------ Renderer.getCacheStats
\* totalLayers += layers.length, over the entries of the cache
RECURSIVE totalLayers(_, _)
totalLayers(cache, ids) ==
    IF ids = {} THEN 0
    ELSE LET nodeId == CHOOSE i \in ids : TRUE
         IN Len(cache[nodeId]) + totalLayers(cache, ids \ {nodeId})

\* the two counts of getCacheStats (the byte figures follow from totalLayers)
getCacheStats(r) ==
    [nodeCount |-> Cardinality(DOMAIN r.layerCache),
     totalLayers |-> totalLayers(r.layerCache, DOMAIN r.layerCache)]

\* --------------------------------------------- Renderer.applyFinalColors
\* A colour is [kind, slot]: white, black, a palette entry, or the
\* desaturated form of a palette entry or of black (slot Null).
Colour(kind, slot) == [kind |-> kind, slot |-> slot]

\* ColorPalette.getColorForLayer: the palette entry of a colour index
getColorForLayer(colorIndex) ==
    IF colorIndex = 0 THEN 0 ELSE (colorIndex - 1) % PaletteLength

getColorForMode(r, mode, id, parity, colorIndex) ==
    CASE mode = "white" -> Colour("white", Null)
      [] mode = "black" -> Colour("black", Null)
      [] mode = "alternate" ->
            IF (id \div 2) % 2 = 0 THEN Colour("white", Null) ELSE Colour("black", Null)
      [] mode = "regular" ->
            IF r.useColor THEN Colour("palette", getColorForLayer(colorIndex))
            ELSE Colour("black", Null)
      [] mode = "alternative" ->
            IF r.useColor THEN Colour("desaturated", getColorForLayer(colorIndex))
            ELSE Colour("desaturated", Null)
      [] OTHER -> Colour("black", Null)

\* the identities of a matrix, as renderNode collects them
uniqueIds(idMatrix) == {idMatrix[p] : p \in Pixels} \ {Sentinel}

\* idToColorIndex: the rank of an identity among the sorted identities
idToColorIndex(idMatrix, id) == Cardinality({v \in uniqueIds(idMatrix) : v < id})

\* the colour mode applyFinalColors picks for an identity
pickColorMode(r, idMatrix, id) ==
    IF id % 2 = 0
    THEN IF idToColorIndex(idMatrix, id) = 0 /\ r.colorModes.firstIndex # "inherit"
         THEN r.colorModes.firstIndex
         ELSE IF idToColorIndex(idMatrix, id) = Cardinality(uniqueIds(idMatrix)) - 1
                 /\ r.colorModes.lastIndex # "inherit"
         THEN r.colorModes.lastIndex
         ELSE r.colorModes.evenParity
    ELSE r.colorModes.oddParity

\* the pixels of the internal canvas after applyFinalColors
applyFinalColors(r, idMatrix) ==
    [p \in Pixels |->
        IF idMatrix[p] = Sentinel THEN Colour("transparent", Null)
        ELSE getColorForMode(r, pickColorMode(r, idMatrix, idMatrix[p]), idMatrix[p],
                             idMatrix[p] % 2, idToColorIndex(idMatrix, idMatrix[p]))]

\* ============================================ the fragment shader helpers
\* shaders.js (and, with the same text, shaders-new.js).  A position is a
\* pair of integers in units of 1/RootRadius of a viewport unit, a value is
\* [x, y] for vec2(colour, alpha).  The antialiased edge of the root circle
\* is taken as a hard edge, so that alpha is 0 or 1; scale 0.5 or 1.0,
\* rotations that are multiples of 90 degrees and radialCount 0, 1, 2 or 4
\* keep every position on the lattice.
Vec2(x, y) == [x |-> x, y |-> y]

\* the slot the shader reads for a node id: u_node*[nodeId]
uniformAt(u, nodeId) ==
    IF nodeId + 1 \in DOMAIN u.nodes THEN u.nodes[nodeId + 1]
    ELSE [baseParent |-> -1, transformParent |-> -1, scale |-> ScaleOne,
          radialRadius |-> 0, radialCount |-> 0, rotation |-> 0]

isRootNode(u, nodeId) ==
    uniformAt(u, nodeId).baseParent = -1 /\ uniformAt(u, nodeId).transformParent = -1

evaluateRootCircle(pos) ==
    Vec2(0, IF pos[1] * pos[1] + pos[2] * pos[2] < RootRadius * RootRadius THEN 1 ELSE 0)

rotate(pos, angleDegrees) ==
    << pos[1] * Cos90(angleDegrees) - pos[2] * Sin90(angleDegrees),
       pos[1] * Sin90(angleDegrees) + pos[2] * Cos90(angleDegrees) >>

\* result /= scale, for scale > 0.0001
unscale(pos, scale) ==
    IF scale > 0 THEN << (ScaleOne * pos[1]) \div scale, (ScaleOne * pos[2]) \div scale >>
    ELSE pos

\* inverseTransformForCopy from step 2 on; result is pos rotated by -rotation
inverseRadial(result, n, copyIndex) ==
    IF n.radialCount > 0
    THEN LET userAngle == (copyIndex * 360) \div n.radialCount
             placementAngle == userAngle + n.rotation - 90
             copyOffset == << n.radialRadius * RootRadius * Cos90(placementAngle),
                              n.radialRadius * RootRadius * Sin90(placementAngle) >>
             copyRotation == IF n.radialCount > 1 THEN n.rotation + userAngle ELSE n.rotation
         IN rotate(<< result[1] - copyOffset[1], result[2] - copyOffset[2] >>, -copyRotation)
    ELSE result

inverseTransformForCopy(u, pos, nodeId, copyIndex) ==
    unscale(inverseRadial(rotate(pos, -uniformAt(u, nodeId).rotation),
                          uniformAt(u, nodeId), copyIndex),
            uniformAt(u, nodeId).scale)

invertColor(colorAlpha) == Vec2(1 - colorAlpha.x, colorAlpha.y)

\* transform over base; with alpha 0 or 1 the blend is one of its operands
composite(base, transform) ==
    IF transform.y + base.y * (1 - transform.y) = 0 THEN Vec2(0, 0)
    ELSE Vec2((transform.x * transform.y + base.x * base.y * (1 - transform.y))
                  \div (transform.y + base.y * (1 - transform.y)),
              transform.y + base.y * (1 - transform.y))

\* if (sampleValue.y > transformValue.y) transformValue = sampleValue
better(transformValue, sampleValue) ==
    IF sampleValue.y > transformValue.y THEN sampleValue ELSE transformValue

\* ------------------------------------------ shaders.js evaluateNodeLimited
\* cache and ready are kept as a function over the ready node ids.  NotReady
\* is vec2(-1, -1); a node the inner loop leaves with "continue" or with
\* allReady = false stays not ready for this pass.
NotReady == Vec2(-1, -1)

\* the radial loop over a root transform parent: the best root sample
RECURSIVE rootSamples(_, _, _, _, _)
rootSamples(u, pos, nid, i, transformValue) ==
    IF i >= MaxCopies \/ i >= uniformAt(u, nid).radialCount THEN transformValue
    ELSE rootSamples(u, pos, nid, i + 1,
            better(transformValue,
                   evaluateRootCircle(inverseTransformForCopy(u, pos, nid, i))))

\* tp_base of the mini-evaluation of tp at tpos
miniBase(u, tp_bp, tpos, cache) ==
    IF tp_bp >= 0
    THEN IF isRootNode(u, tp_bp) THEN evaluateRootCircle(tpos)
         ELSE IF tp_bp \in DOMAIN cache THEN cache[tp_bp]
         ELSE NotReady
    ELSE Vec2(0, 0)

\* tp_transform of the mini-evaluation, inverted
miniTransform(u, tp, tp_tp, tpos) ==
    IF tp_tp >= 0
    THEN IF isRootNode(u, tp_tp)
         THEN invertColor(
                 IF uniformAt(u, tp).radialCount = 0
                 THEN evaluateRootCircle(inverseTransformForCopy(u, tpos, tp, 0))
                 ELSE rootSamples(u, tpos, tp, 0, Vec2(0, 0)))
         ELSE NotReady
    ELSE Vec2(0, 0)

compositeReady(base, transform) ==
    IF base.y < 0 \/ transform.y < 0 THEN NotReady ELSE composite(base, transform)

\* the value of the ready transform parent tp rebuilt at tpos
miniEvaluate(u, tp, tpos, cache) ==
    compositeReady(miniBase(u, uniformAt(u, tp).baseParent, tpos, cache),
                   miniTransform(u, tp, uniformAt(u, tp).transformParent, tpos))

\* one sample of the transform parent at tpos
limitedSample(u, tp, tpos, maxDepth, cache) ==
    IF isRootNode(u, tp) THEN evaluateRootCircle(tpos)
    ELSE IF tp \in DOMAIN cache /\ maxDepth > 1 THEN miniEvaluate(u, tp, tpos, cache)
    ELSE NotReady

\* the radial loop of evaluateNodeLimited
RECURSIVE limitedRadial(_, _, _, _, _, _, _)
limitedRadial(u, nid, pos, maxDepth, cache, i, transformValue) ==
    IF i >= MaxCopies \/ i >= uniformAt(u, nid).radialCount THEN transformValue
    ELSE IF limitedSample(u, uniformAt(u, nid).transformParent,
                          inverseTransformForCopy(u, pos, nid, i), maxDepth, cache).y < 0
         THEN NotReady
         ELSE limitedRadial(u, nid, pos, maxDepth, cache, i + 1,
                  better(transformValue,
                         limitedSample(u, uniformAt(u, nid).transformParent,
                                       inverseTransformForCopy(u, pos, nid, i),
                                       maxDepth, cache)))

invertReady(v) == IF v.y < 0 THEN NotReady ELSE invertColor(v)

\* transformValue of node nid, inverted
limitedTransform(u, nid, pos, maxDepth, cache) ==
    IF uniformAt(u, nid).transformParent >= 0
    THEN invertReady(
            IF uniformAt(u, nid).radialCount = 0
            THEN limitedSample(u, uniformAt(u, nid).transformParent,
                               inverseTransformForCopy(u, pos, nid, 0), maxDepth, cache)
            ELSE limitedRadial(u, nid, pos, maxDepth, cache, 0, Vec2(0, 0)))
    ELSE Vec2(0, 0)

\* baseValue of a node with base parent bp
baseValueAt(u, bp, pos, cache) ==
    IF bp >= 0
    THEN IF isRootNode(u, bp) THEN evaluateRootCircle(pos)
         ELSE IF bp \in DOMAIN cache THEN cache[bp]
         ELSE NotReady
    ELSE Vec2(0, 0)

\* the body of the loop over nid for a node that is not ready
limitedNode(u, nid, pos, maxDepth, cache) ==
    IF isRootNode(u, nid) THEN evaluateRootCircle(pos)
    ELSE IF baseValueAt(u, uniformAt(u, nid).baseParent, pos, cache).y < 0 THEN NotReady
    ELSE compositeReady(baseValueAt(u, uniformAt(u, nid).baseParent, pos, cache),
                        limitedTransform(u, nid, pos, maxDepth, cache))

\* cache[nid] = v; ready[nid] = true; madeProgress = true
markReady(st, nid, v) ==
    IF v.y < 0 THEN st
    ELSE [cache |-> [i \in DOMAIN st.cache \cup {nid} |-> IF i = nid THEN v ELSE st.cache[i]],
          madeProgress |-> TRUE]

\* for (nid = 0; nid < u_nodeCount; nid++)
RECURSIVE limitedPass(_, _, _, _, _)
limitedPass(u, pos, maxDepth, nid, st) ==
    IF nid >= u.nodeCount THEN st
    ELSE IF nid \in DOMAIN st.cache THEN limitedPass(u, pos, maxDepth, nid + 1, st)
    ELSE limitedPass(u, pos, maxDepth, nid + 1,
                     markReady(st, nid, limitedNode(u, nid, pos, maxDepth, st.cache)))

\* if (ready[nodeId]) return cache[nodeId]; return vec2(-1.0, -1.0)
limitedResult(nodeId, st) == IF nodeId \in DOMAIN st.cache THEN st.cache[nodeId] ELSE NotReady

RECURSIVE limitedLoop(_, _, _, _, _, _)
\* the loop from the end of one pass on
limitedAfterPass(u, nodeId, pos, maxDepth, pass, st) ==
    IF ~st.madeProgress \/ nodeId \in DOMAIN st.cache THEN limitedResult(nodeId, st)
    ELSE limitedLoop(u, nodeId, pos, maxDepth, pass + 1, st)

limitedLoop(u, nodeId, pos, maxDepth, pass, st) ==
    IF pass >= LimitedPasses \/ pass >= maxDepth THEN limitedResult(nodeId, st)
    ELSE limitedAfterPass(u, nodeId, pos, maxDepth, pass,
            limitedPass(u, pos, maxDepth, 0, [cache |-> st.cache, madeProgress |-> FALSE]))

evaluateNodeLimited(u, nodeId, pos, maxDepth) ==
    limitedLoop(u, nodeId, pos, maxDepth, 0, [cache |-> EmptyFn, madeProgress |-> FALSE])

\* ---------------------------------------------- shaders.js tryEvaluateNode
\* one sample of the transform parent tp at tpos
trySample(u, tp, tpos) ==
    IF isRootNode(u, tp) THEN evaluateRootCircle(tpos)
    ELSE evaluateNodeLimited(u, tp, tpos, LimitedPasses)

\* the radial loop of tryEvaluateNode
RECURSIVE tryRadial(_, _, _, _, _)
tryRadial(u, nodeId, pos, i, transformValue) ==
    IF i >= MaxCopies \/ i >= uniformAt(u, nodeId).radialCount THEN transformValue
    ELSE IF trySample(u, uniformAt(u, nodeId).transformParent,
                      inverseTransformForCopy(u, pos, nodeId, i)).y < 0
         THEN NotReady
         ELSE tryRadial(u, nodeId, pos, i + 1,
                  better(transformValue,
                         trySample(u, uniformAt(u, nodeId).transformParent,
                                   inverseTransformForCopy(u, pos, nodeId, i))))

\* transformValue of the node, inverted
tryTransform(u, nodeId, pos) ==
    IF uniformAt(u, nodeId).transformParent >= 0
    THEN invertReady(
            IF uniformAt(u, nodeId).radialCount = 0
            THEN trySample(u, uniformAt(u, nodeId).transformParent,
                           inverseTransformForCopy(u, pos, nodeId, 0))
            ELSE tryRadial(u, nodeId, pos, 0, Vec2(0, 0)))
    ELSE Vec2(0, 0)

tryEvaluateNode(u, nodeId, pos, cache) ==
    IF isRootNode(u, nodeId) THEN evaluateRootCircle(pos)
    ELSE IF baseValueAt(u, uniformAt(u, nodeId).baseParent, pos, cache).y < 0 THEN NotReady
    ELSE compositeReady(baseValueAt(u, uniformAt(u, nodeId).baseParent, pos, cache),
                        tryTransform(u, nodeId, pos))

\* ------------------------------------------------- shaders.js evaluateNode
RECURSIVE evaluatePass(_, _, _, _)
evaluatePass(u, pos, nid, st) ==
    IF nid >= u.nodeCount THEN st
    ELSE IF nid \in DOMAIN st.cache THEN evaluatePass(u, pos, nid + 1, st)
    ELSE evaluatePass(u, pos, nid + 1,
                      markReady(st, nid, tryEvaluateNode(u, nid, pos, st.cache)))

\* return cache[nodeId] if it is ready, otherwise the fallback vec2(0, 0)
evaluateResult(nodeId, st) ==
    IF nodeId \in DOMAIN st.cache
    THEN [value |-> st.cache[nodeId], fallback |-> FALSE]
    ELSE [value |-> Vec2(0, 0), fallback |-> TRUE]

RECURSIVE evaluateLoop(_, _, _, _, _)
evaluateAfterPass(u, nodeId, pos, pass, st) ==
    IF ~st.madeProgress \/ nodeId \in DOMAIN st.cache THEN evaluateResult(nodeId, st)
    ELSE evaluateLoop(u, nodeId, pos, pass + 1, st)

evaluateLoop(u, nodeId, pos, pass, st) ==
    IF pass >= EvaluatePasses THEN evaluateResult(nodeId, st)
    ELSE evaluateAfterPass(u, nodeId, pos, pass,
            evaluatePass(u, pos, 0, [cache |-> st.cache, madeProgress |-> FALSE]))

\* evaluateNode(nodeId, pos): the value, and whether it is the fallback
evaluateNode(u, nodeId, pos) ==
    evaluateLoop(u, nodeId, pos, 0, [cache |-> EmptyFn, madeProgress |-> FALSE])

\* --------------------------------------------- shaders-new.js evaluateNode
\* The stack evaluator, one loop iteration at a time.  The evaluation is
\* [stack, resultStack, iterations, maxIndex, done, exit, result]: stack
\* holds the frames stack[0 .. stackTop-1] (frames above stackTop are never
\* read), resultStack the entries written so far, maxIndex the largest
\* index used on either array; exit tells which return statement ended the
\* call: "value", "overflow" (line 146) or "incomplete" (line 269).
\* Two fields are history: basePushes counts the frames the initial frame
\* has pushed for its base parent, delivered is <<>> or holds the last value
\* a popped frame handed to the frame below it.
Frame(nodeId, pos) ==
    [nodeId |-> nodeId, pos |-> pos, phase |-> 0, baseResult |-> Vec2(0, 0), radialIndex |-> 0]

\* evaluateNode up to the loop: the initial frame is pushed
stackStart(nodeId, pos) ==
    [stack |-> << Frame(nodeId, pos) >>, resultStack |-> EmptyFn, iterations |-> 0,
     maxIndex |-> 0, done |-> FALSE, exit |-> "", result |-> Vec2(0, 0),
     basePushes |-> 0, delivered |-> <<>>]

returned(m, exit, result) == [m EXCEPT !.done = TRUE, !.exit = exit, !.result = result]

\* stackTop--; then resultStack[stackTop - 1] = result, or return result
popWith(m, result) ==
    IF Len(m.stack) > 1
    THEN [m EXCEPT !.stack = SubSeq(m.stack, 1, Len(m.stack) - 1),
                   !.delivered = <<result>>,
                   !.resultStack = [i \in DOMAIN m.resultStack \cup {Len(m.stack) - 2} |->
                                       IF i = Len(m.stack) - 2 THEN result
                                       ELSE m.resultStack[i]]]
    ELSE returned([m EXCEPT !.stack = <<>>], "value", result)

\* stack[stackTop - 1] = current
storeFrame(m, current) == [m EXCEPT !.stack[Len(m.stack)] = current]

\* stack[stackTop] = newFrame; stackTop++
pushFrame(m, newFrame) ==
    [m EXCEPT !.stack = Append(m.stack, newFrame),
              !.maxIndex = IF Len(m.stack) > @ THEN Len(m.stack) ELSE @]

\* phase 0: the base parent
stackPhase0(u, m, current, bp) ==
    IF bp < 0 THEN storeFrame(m, [current EXCEPT !.baseResult = Vec2(0, 0), !.phase = 1])
    ELSE IF isRootNode(u, bp)
    THEN storeFrame(m, [current EXCEPT !.baseResult = evaluateRootCircle(current.pos),
                                       !.phase = 1])
    ELSE pushFrame([m EXCEPT !.basePushes = IF Len(m.stack) = 1 THEN @ + 1 ELSE @],
                   Frame(bp, current.pos))

\* phase 1 with a transform parent: one radial copy, or on to phase 2, whose
\* body pops the frame
stackPhase1(u, m, current, tp, radialCount) ==
    IF current.radialIndex < radialCount
    THEN IF isRootNode(u, tp)
         THEN storeFrame(m, [current EXCEPT
                  !.baseResult = better(current.baseResult,
                      evaluateRootCircle(inverseTransformForCopy(u, current.pos, current.nodeId,
                                                                 current.radialIndex))),
                  !.radialIndex = @ + 1])
         ELSE pushFrame(m, Frame(tp, inverseTransformForCopy(u, current.pos, current.nodeId,
                                                            current.radialIndex)))
    ELSE [m EXCEPT !.stack = SubSeq(m.stack, 1, Len(m.stack) - 1)]

\* the loop body for the frame on top of the stack
stackFrame(u, m, current) ==
    IF isRootNode(u, current.nodeId) THEN popWith(m, evaluateRootCircle(current.pos))
    ELSE IF current.phase = 0
    THEN stackPhase0(u, m, current, uniformAt(u, current.nodeId).baseParent)
    ELSE IF current.phase = 1
    THEN IF uniformAt(u, current.nodeId).transformParent < 0
         THEN popWith(m, current.baseResult)
         ELSE stackPhase1(u, m, current, uniformAt(u, current.nodeId).transformParent,
                          IF uniformAt(u, current.nodeId).radialCount = 0 THEN 1
                          ELSE uniformAt(u, current.nodeId).radialCount)
    ELSE [m EXCEPT !.stack = SubSeq(m.stack, 1, Len(m.stack) - 1)]

\* a slip of the loop guard: the iteration budget is not tested
stackStep_NoBudget(u, m) ==
    IF Len(m.stack) = 0 THEN returned(m, "incomplete", Vec2(1, 0))
    ELSE IF Len(m.stack) >= MAX_STACK
    THEN returned([m EXCEPT !.iterations = @ + 1], "overflow", Vec2(1, 1))
    ELSE stackFrame(u, [m EXCEPT !.iterations = @ + 1], m.stack[Len(m.stack)])

\* one test of the loop guard and, if it holds, one iteration
stackStep(u, m) ==
    IF ~(Len(m.stack) > 0 /\ m.iterations < MAX_ITERATIONS)
    THEN returned(m, "incomplete", Vec2(1, 0))
    ELSE IF Len(m.stack) >= MAX_STACK
    THEN returned([m EXCEPT !.iterations = @ + 1], "overflow", Vec2(1, 1))
    ELSE stackFrame(u, [m EXCEPT !.iterations = @ + 1], m.stack[Len(m.stack)])

\* ===================================================== the WebGL editor
\* main.js.  The editor is the record of its variables (currentGraph,
\* selectedNodeId, supersampleFactor), of what its page shows (the options of
\* the node select and of the two parent selects, whether the editor section
\* is visible, whether the delete button is disabled, the error text), and of
\* the uniforms it has handed to the shader program.
Max(S) == CHOOSE x \in S : \A y \in S : y <= x

DefaultNode(id, baseParent, transformParent) ==
    Node(id, baseParent, transformParent, ScaleOne, 0, 0, 0)

\* one slot of the u_node* arrays
uniformSlot(node) ==
    [baseParent |-> IF node.baseParent # Null THEN node.baseParent ELSE -1,
     transformParent |-> IF node.transformParent # Null THEN node.transformParent ELSE -1,
     scale |-> node.scale, radialRadius |-> node.radialRadius,
     radialCount |-> node.radialCount, rotation |-> node.rotation]

\* slots past nodes.length hold the defaults and are not kept
WebGL_uploadGraphData(s) ==
    [s EXCEPT !.uniforms =
        [nodeCount |-> Len(s.currentGraph.order),
         nodes |-> [i \in 1..(IF Len(s.currentGraph.order) < MAX_NODES
                              THEN Len(s.currentGraph.order) ELSE MAX_NODES) |->
                        uniformSlot(getAllNodes(s.currentGraph)[i])]]]

WebGL_render(s) ==
    [s EXCEPT !.targetNodeId =
        IF s.selectedNodeId # Null THEN s.selectedNodeId
        ELSE IF s.currentGraph.rootNode # Null THEN s.currentGraph.rootNode ELSE 0]

WebGL_updateNodeList(s) == [s EXCEPT !.nodeOptions = DOMAIN s.currentGraph.node]

WebGL_updateParentSelects(s) ==
    {id \in DOMAIN s.currentGraph.node : s.selectedNodeId # Null /\ id # s.selectedNodeId}

WebGL_updateEditor(s) ==
    IF s.selectedNodeId = Null \/ ~hasNode(s.currentGraph, s.selectedNodeId)
    THEN [s EXCEPT !.editorVisible = FALSE, !.deleteDisabled = TRUE]
    ELSE [s EXCEPT !.editorVisible = TRUE,
                   !.deleteDisabled = isRoot(s.currentGraph.node[s.selectedNodeId]),
                   !.parentOptions = WebGL_updateParentSelects(s)]

WebGL_updateUI(s) == WebGL_updateEditor(WebGL_updateNodeList(s))

WebGL_initializeNewGraph(s) ==
    WebGL_updateUI(WebGL_uploadGraphData(
        [s EXCEPT !.currentGraph = [addNode(NewGraph, DefaultNode(0, Null, Null))
                                       EXCEPT !.rootNode = 0],
                  !.selectedNodeId = Null]))

\* the page before initializeNewGraph has run
WebGL_blank ==
    [currentGraph |-> NewGraph, selectedNodeId |-> Null, supersampleFactor |-> 1,
     nodeOptions |-> {}, editorVisible |-> FALSE, deleteDisabled |-> TRUE,
     parentOptions |-> {}, uniforms |-> [nodeCount |-> 0, nodes |-> <<>>],
     targetNodeId |-> 0, error |-> "", edits |-> 0]

\* initGL(); initializeNewGraph(); animate();
WebGL_initial == WebGL_render(WebGL_initializeNewGraph(WebGL_blank))

\* nodeSelect 'change'
WebGL_nodeSelectChange(s, value) ==
    WebGL_render(WebGL_updateEditor([s EXCEPT !.selectedNodeId = value]))

\* the try block of a handler that went through: upload, redraw, clearError
WebGL_accepted(s) == [WebGL_render(s) EXCEPT !.error = ""]

newNodeId(g) == IF Len(g.order) > 0 THEN Max(DOMAIN g.node) + 1 ELSE 1

\* createNodeButton 'click' from validate() on
WebGL_createValidated(s, newId, res) ==
    IF res.err = ""
    THEN WebGL_accepted(WebGL_updateUI(
            [WebGL_uploadGraphData([s EXCEPT !.currentGraph = res.graph])
                EXCEPT !.selectedNodeId = newId]))
    ELSE [s EXCEPT !.currentGraph = mapDelete(res.graph, newId), !.error = res.err]

\* createNodeButton 'click'
WebGL_createNode(s) ==
    WebGL_createValidated(s, newNodeId(s.currentGraph),
        validate(addNode(s.currentGraph, DefaultNode(newNodeId(s.currentGraph), 0, 0))))

\* deleteNodeButton 'click' from validate() on
WebGL_deleteValidated(s, res) ==
    IF res.err = ""
    THEN WebGL_accepted(WebGL_updateUI(
            WebGL_uploadGraphData([s EXCEPT !.currentGraph = res.graph])))
    ELSE [s EXCEPT !.currentGraph = res.graph, !.error = res.err]

\* deleteNodeButton 'click'
WebGL_deleteNode(s) ==
    IF s.selectedNodeId = Null THEN s
    ELSE IF hasNode(s.currentGraph, s.selectedNodeId)
            /\ isRoot(s.currentGraph.node[s.selectedNodeId])
    THEN [s EXCEPT !.error = "Cannot delete root node"]
    ELSE WebGL_deleteValidated([s EXCEPT !.selectedNodeId = Null],
                               validate(mapDelete(s.currentGraph, s.selectedNodeId)))

\* updateNodeProperty from validate() on
WebGL_propertyValidated(s, res) ==
    IF res.err = ""
    THEN WebGL_accepted(WebGL_uploadGraphData([s EXCEPT !.currentGraph = res.graph]))
    ELSE [s EXCEPT !.currentGraph = res.graph, !.error = res.err]

WebGL_updateNodeProperty(s, property, value) ==
    IF s.selectedNodeId = Null \/ ~hasNode(s.currentGraph, s.selectedNodeId) THEN s
    ELSE WebGL_propertyValidated(s,
            validate([s.currentGraph EXCEPT !.node[s.selectedNodeId][property] = value]))

\* ==================================================== the canvas editor
\* The editor with the thumbnail grid and the full-size preview.  The record
\* holds its variables (currentGraph, selectedNodeId, renderer and
\* fullsizeRenderer, each <<>> while null and <<r>> once created) and what
\* its page shows.  Both renderers are kept at the one bounded canvas size.
\* error is [what, id, detail]: the kind of message, the node id it names and
\* the exception text it quotes.
NoError == [what |-> "", id |-> Null, detail |-> ""]
ErrorText(what, id, detail) == [what |-> what, id |-> id, detail |-> detail]

\* the renderer to use: the one there is, or a new one
rendererOrNew(slot) == IF slot = <<>> THEN NewRenderer ELSE slot[1]

\* the forEach of updateThumbnails: acc is [r, error]
RECURSIVE Canvas_renderThumbnails(_, _, _)
RECURSIVE Canvas_thumbnailRendered(_, _, _, _)
Canvas_renderThumbnails(g, i, acc) ==
    IF i > Len(g.order) THEN acc
    ELSE Canvas_thumbnailRendered(g, i, acc.error,
                                  renderNode(acc.r, g, g.node[g.order[i]]))

Canvas_thumbnailRendered(g, i, error, res) ==
    Canvas_renderThumbnails(g, i + 1,
        [r |-> res.r,
         error |-> IF res.threw # ""
                   THEN ErrorText("Error rendering node", g.order[i], res.threw)
                   ELSE error])

Canvas_thumbnailsDone(s, acc) == [s EXCEPT !.renderer = <<acc.r>>, !.error = acc.error]

Canvas_updateThumbnails(s) ==
    Canvas_thumbnailsDone(s,
        Canvas_renderThumbnails(s.currentGraph, 1,
            [r |-> setGraph(rendererOrNew(s.renderer)), error |-> s.error]))

Canvas_fullsizeDone(s, res) ==
    [s EXCEPT !.fullsizeRenderer = <<res.r>>,
              !.previewVisible = TRUE,
              !.error = IF res.threw # ""
                        THEN ErrorText("Error rendering fullsize node",
                                       s.selectedNodeId, res.threw)
                        ELSE s.error]

Canvas_updateFullsizePreview(s) ==
    IF s.selectedNodeId = Null THEN [s EXCEPT !.previewVisible = FALSE]
    ELSE IF ~hasNode(s.currentGraph, s.selectedNodeId) THEN s
    ELSE Canvas_fullsizeDone(s,
            renderNode(setGraph(rendererOrNew(s.fullsizeRenderer)), s.currentGraph,
                       s.currentGraph.node[s.selectedNodeId]))

Canvas_updateNodeList(s) == [s EXCEPT !.nodeOptions = DOMAIN s.currentGraph.node]

Canvas_updateParentSelectors(s) ==
    {id \in DOMAIN s.currentGraph.node : id # s.selectedNodeId}

Canvas_updateEditor(s) ==
    IF s.selectedNodeId = Null THEN [s EXCEPT !.editorVisible = FALSE]
    ELSE IF ~hasNode(s.currentGraph, s.selectedNodeId) THEN s
    ELSE IF isRoot(s.currentGraph.node[s.selectedNodeId])
    THEN [s EXCEPT !.editorVisible = TRUE, !.controlsDisabled = TRUE, !.parentOptions = {}]
    ELSE [s EXCEPT !.editorVisible = TRUE, !.controlsDisabled = FALSE,
                   !.parentOptions = Canvas_updateParentSelectors(s)]

Canvas_updateUI(s) == Canvas_updateEditor(Canvas_updateThumbnails(Canvas_updateNodeList(s)))

Canvas_selectNode(s, nodeId) ==
    Canvas_updateFullsizePreview(Canvas_updateThumbnails(Canvas_updateEditor(
        Canvas_updateNodeList([s EXCEPT !.selectedNodeId = nodeId]))))

Canvas_initializeNewGraph(s) ==
    Canvas_updateUI(
        [s EXCEPT !.currentGraph = [addNode(NewGraph, DefaultNode(0, Null, Null))
                                       EXCEPT !.rootNode = 0],
                  !.selectedNodeId = Null])

\* the page before initializeNewGraph has run
Canvas_blank ==
    [currentGraph |-> NewGraph, selectedNodeId |-> Null,
     renderer |-> <<>>, fullsizeRenderer |-> <<>>,
     nodeOptions |-> {}, editorVisible |-> FALSE, controlsDisabled |-> FALSE,
     parentOptions |-> {}, previewVisible |-> FALSE, error |-> NoError, edits |-> 0]

Canvas_initial == Canvas_initializeNewGraph(Canvas_blank)

\* nodeSelect 'change'
Canvas_nodeSelectChange(s, nodeId) ==
    IF nodeId # Null THEN Canvas_selectNode(s, nodeId)
    ELSE Canvas_updateThumbnails(Canvas_updateEditor([s EXCEPT !.selectedNodeId = Null]))

\* createNodeButton 'click'
Canvas_createNode(s) ==
    Canvas_updateUI(Canvas_selectNode(
        [s EXCEPT !.currentGraph =
            addNode(s.currentGraph,
                    Node(Max(DOMAIN s.currentGraph.node) + 1, s.currentGraph.rootNode,
                         s.currentGraph.rootNode, ScaleOne, 0, 0, 0))],
        Max(DOMAIN s.currentGraph.node) + 1))

\* deleteNodeButton 'click'
Canvas_deleteNode(s) ==
    IF s.selectedNodeId = Null THEN s
    ELSE IF isRoot(s.currentGraph.node[s.selectedNodeId])
    THEN [s EXCEPT !.error = ErrorText("Cannot delete root node", Null, "")]
    ELSE IF \E n \in DOMAIN s.currentGraph.node :
               \/ s.currentGraph.node[n].baseParent = s.selectedNodeId
               \/ s.currentGraph.node[n].transformParent = s.selectedNodeId
    THEN [s EXCEPT !.error = ErrorText("Cannot delete node: used by other node(s)",
                                       s.selectedNodeId, "")]
    ELSE Canvas_updateUI([s EXCEPT !.currentGraph = mapDelete(s.currentGraph, s.selectedNodeId),
                                   !.selectedNodeId = Null])

\* a slider 'input' or a parent selector 'change'
Canvas_setProperty(s, property, value) ==
    IF s.selectedNodeId = Null THEN s
    ELSE Canvas_updateFullsizePreview(Canvas_updateThumbnails(
            [s EXCEPT !.currentGraph.node[s.selectedNodeId][property] = value]))

\* example select 'change' and import 'change' from Graph.fromJSON on
Canvas_loaded(s, res) ==
    IF res.err = ""
    THEN Canvas_updateUI([s EXCEPT !.currentGraph = res.graph, !.selectedNodeId = Null])
    ELSE [s EXCEPT !.error = ErrorText("Error loading", Null, res.err)]

Canvas_loadGraph(s, jsonData) == Canvas_loaded([s EXCEPT !.error = NoError], fromJSON(jsonData))

\* exportJsonButton 'click': the document handed to JSON.stringify.  A key
\* whose value is null is written; base_color is the palette's colour.
exportNode(node) ==
    IF isRoot(node) THEN "id" :> node.id
    ELSE ("id" :> node.id) @@ ("base_parent" :> node.baseParent)
             @@ ("transform_parent" :> node.transformParent) @@ ("scale" :> node.scale)
             @@ ("radial_radius" :> node.radialRadius) @@ ("radial_count" :> node.radialCount)
             @@ ("rotation" :> node.rotation)

exportJson(s, colorEnabled) ==
    [hasNodes |-> TRUE,
     nodes |-> [i \in 1..Len(s.currentGraph.order) |-> exportNode(getAllNodes(s.currentGraph)[i])],
     color_settings |-> [enabled |-> colorEnabled, base_color |-> "#3498db"]]

\* clearCacheButton 'click'
Canvas_clearCaches(s) ==
    [s EXCEPT !.renderer = IF s.renderer = <<>> THEN <<>> ELSE <<clearCache(s.renderer[1])>>,
              !.fullsizeRenderer = IF s.fullsizeRenderer = <<>> THEN <<>>
                                   ELSE <<clearCache(s.fullsizeRenderer[1])>>,
              !.error = ErrorText("Caches cleared", Null, "")]

\* ================================================================ state
VARIABLES
    lastOp,       \* the operation that made this state (history)
    doc,          \* the JSON document handed to Graph.fromJSON
    loadResult,   \* [done, err, graph]: what fromJSON returned or threw
    rGraph,       \* the graph a Renderer is used with
    renderer,     \* that Renderer
    api,          \* [graph, err]: a Graph driven through addNode and validate
    webgl,        \* the WebGL editor (main.js)
    editor,       \* the canvas editor
    call          \* [fn, arg, out]: a function applied on its own

loadVars == <<doc, loadResult, call>>
renderVars == <<rGraph, renderer>>
vars == <<lastOp, doc, loadResult, rGraph, renderer, api, webgl, editor, call>>

\* lastOp: the operation, the node id it was about (Null for none), what it
\* threw or reported ("" for nothing), and for renderNode whether the node
\* was in the layer cache when it was called
Did(op, id, out, hit) == [op |-> op, id |-> id, out |-> out, hit |-> hit]
Op(op) == Did(op, Null, "", FALSE)

\* ------------------------------------------------- bounded input documents
OptField(k, S) == {EmptyFn} \cup {k :> v : v \in S}

\* elements with an id, any parents, no parameters
StructElems ==
    {("id" :> i) @@ b @@ t :
        i \in Ids, b \in OptField("base_parent", Ids), t \in OptField("transform_parent", Ids)}

ParamChoices ==
    {EmptyFn, "scale" :> 0, "scale" :> -2, "radial_radius" :> -1,
     ("scale" :> 1) @@ ("radial_radius" :> 1),
     ("radial_count" :> 2) @@ ("rotation" :> 90)}

\* elements whose id may be missing and whose parameters vary (ids 0..1)
ParamElems ==
    {i @@ b @@ t @@ p :
        i \in OptField("id", 0..1), b \in OptField("base_parent", 0..1),
        t \in OptField("transform_parent", 0..1), p \in ParamChoices}

NodesDoc(ns) == [hasNodes |-> TRUE, nodes |-> ns]

\* the documents loaded: one without a nodes array, every array of up to
\* MaxDocLen StructElems, every array of up to MaxParamDocLen ParamElems
IsInputDoc(d) ==
    \/ d = [hasNodes |-> FALSE, nodes |-> <<>>]
    \/ \E k \in 0..MaxDocLen : \E ns \in [1..k -> StructElems] : d = NodesDoc(ns)
    \/ \E k \in 1..MaxParamDocLen : \E ns \in [1..k -> ParamElems] : d = NodesDoc(ns)

NoResult == [done |-> FALSE, err |-> "", graph |-> NewGraph]

NoDoc == [hasNodes |-> FALSE, nodes |-> <<>>]

NewApi == [graph |-> NewGraph, err |-> ""]

NoCall == [fn |-> "", arg |-> <<>>, out |-> <<>>]

IdleLoad == doc = NoDoc /\ loadResult = NoResult /\ call = NoCall
IdleRender == rGraph = NewGraph /\ renderer = NewRenderer
IdleApi == api = NewApi
IdleWebGL == webgl = WebGL_initial
IdleCanvas == editor = Canvas_initial

\* ============================================================ SpecLoad
\* Graph.fromJSON applied to every bounded document.
InitLoad ==
    /\ lastOp = Op("init")
    /\ IsInputDoc(doc)
    /\ loadResult = NoResult
    /\ call = NoCall
    /\ IdleRender /\ IdleApi /\ IdleWebGL /\ IdleCanvas

\* Graph.fromJSON(doc)
LoadDocument ==
    /\ ~loadResult.done
    /\ LET r == fromJSON(doc) IN
       loadResult' = [done |-> TRUE, err |-> r.err,
                      graph |-> IF r.err = "" THEN r.graph ELSE NewGraph]
    /\ lastOp' = Did("fromJSON", Null, fromJSON(doc).err, FALSE)
    /\ UNCHANGED <<doc, call, renderVars, api, webgl, editor>>

NextLoad == LoadDocument

SpecLoad == InitLoad /\ [][NextLoad]_vars

\* ============================================================ SpecRender
\* One Renderer used with one valid graph: setGraph, renderNode of any node
\* of the graph, clearCache, in any order.
RenderParamChoices ==
    {EmptyFn, "scale" :> 1,
     ("radial_count" :> 2) @@ ("radial_radius" :> 1),
     ("scale" :> 1) @@ ("radial_count" :> 4) @@ ("radial_radius" :> 1) @@ ("rotation" :> 90)}

\* element k carries id k-1; the first element is the root
RenderElems(k) ==
    IF k = 1 THEN {"id" :> 0}
    ELSE {("id" :> (k - 1)) @@ b @@ t @@ p :
            b \in OptField("base_parent", 0..(MaxRenderNodes - 1)),
            t \in OptField("transform_parent", 0..(MaxRenderNodes - 1)),
            p \in RenderParamChoices}

RECURSIVE RenderNodeLists(_)
RenderNodeLists(k) ==
    IF k = 0 THEN {<<>>}
    ELSE {Append(ns, e) : ns \in RenderNodeLists(k - 1), e \in RenderElems(k)}

\* the graphs Graph.fromJSON returns for these documents
IsRenderGraph(g) ==
    \E k \in 1..MaxRenderNodes : \E ns \in RenderNodeLists(k) :
        /\ fromJSON(NodesDoc(ns)).err = ""
        /\ g = fromJSON(NodesDoc(ns)).graph

InitRender ==
    /\ lastOp = Op("init")
    /\ IdleLoad /\ IdleApi /\ IdleWebGL /\ IdleCanvas
    /\ IsRenderGraph(rGraph)
    /\ renderer = NewRenderer

\* renderer.setGraph(graph)
SetGraph ==
    /\ renderer' = setGraph(renderer)
    /\ lastOp' = Op("setGraph")
    /\ UNCHANGED <<loadVars, rGraph, api, webgl, editor>>

\* renderer.renderNode(node, canvas), node one of graph.getAllNodes()
RenderNode(id) ==
    /\ renderer.nextPixelId <= MaxPixelId
    /\ renderer' = renderNode(renderer, rGraph, rGraph.node[id]).r
    /\ lastOp' = Did("renderNode", id, renderNode(renderer, rGraph, rGraph.node[id]).threw,
                     id \in DOMAIN renderer.layerCache)
    /\ UNCHANGED <<loadVars, rGraph, api, webgl, editor>>

\* renderer.clearCache()
ClearCache ==
    /\ renderer.nextPixelId <= MaxPixelId
    /\ renderer' = clearCache(renderer)
    /\ lastOp' = Op("clearCache")
    /\ UNCHANGED <<loadVars, rGraph, api, webgl, editor>>

NextRender ==
    \/ SetGraph
    \/ \E id \in DOMAIN rGraph.node : RenderNode(id)
    \/ ClearCache

SpecRender == InitRender /\ [][NextRender]_vars

\* =========================================================== SpecColour
\* One Renderer used with one valid graph under all of its operations: the
\* colour settings as well as setGraph, renderNode and clearCache.
ColourParamChoices ==
    {("scale" :> 1) @@ ("radial_count" :> 2) @@ ("radial_radius" :> 1)}

ColourElems(k) ==
    IF k = 1 THEN {"id" :> 0}
    ELSE {("id" :> (k - 1)) @@ b @@ t @@ p :
            b \in OptField("base_parent", 0..(MaxRenderNodes - 1)),
            t \in OptField("transform_parent", 0..(MaxRenderNodes - 1)),
            p \in ColourParamChoices}

RECURSIVE ColourNodeLists(_)
ColourNodeLists(k) ==
    IF k = 0 THEN {<<>>}
    ELSE {Append(ns, e) : ns \in ColourNodeLists(k - 1), e \in ColourElems(k)}

IsColourGraph(g) ==
    \E k \in 1..MaxRenderNodes : \E ns \in ColourNodeLists(k) :
        /\ fromJSON(NodesDoc(ns)).err = ""
        /\ g = fromJSON(NodesDoc(ns)).graph

InitColour ==
    /\ lastOp = Op("init")
    /\ IdleLoad /\ IdleApi /\ IdleWebGL /\ IdleCanvas
    /\ IsColourGraph(rGraph)
    /\ renderer = NewRenderer

\* the colour modes the settings operations are given
ColorModeChoices ==
    {DefaultColorModes,
     [evenParity |-> "alternate", oddParity |-> "alternate",
      firstIndex |-> "white", lastIndex |-> "inherit"],
     [evenParity |-> "regular", oddParity |-> "black",
      firstIndex |-> "white", lastIndex |-> "white"]}

\* renderer.setColorModes(modes)
SetColorModes == \E modes \in ColorModeChoices :
    /\ renderer' = setColorModes(renderer, modes)
    /\ lastOp' = Op("setColorModes")
    /\ UNCHANGED <<loadVars, rGraph, api, webgl, editor>>

\* renderer.setUseColor(useColor)
SetUseColor == \E useColor \in BOOLEAN :
    /\ renderer' = setUseColor(renderer, useColor)
    /\ lastOp' = Op("setUseColor")
    /\ UNCHANGED <<loadVars, rGraph, api, webgl, editor>>

\* renderer.setColorPalette(palette)
SetColorPalette ==
    /\ renderer' = setColorPalette(renderer)
    /\ lastOp' = Op("setColorPalette")
    /\ UNCHANGED <<loadVars, rGraph, api, webgl, editor>>

NextColour ==
    \/ SetGraph
    \/ \E id \in DOMAIN rGraph.node : RenderNode(id)
    \/ ClearCache
    \/ SetColorModes
    \/ SetUseColor
    \/ SetColorPalette

SpecColour == InitColour /\ [][NextColour]_vars

\* ========================================================= SpecReassign
\* Renderer.reassignIds applied on its own to bounded matrices.  The first
\* MaxVariedPixels pixels take every combination of the source identities
\* and the pattern repeats over the rest of the matrix.
SourceIdChoices == {Sentinel, 0, 1, 2, 5}

SourceMatrices ==
    {[p \in Pixels |-> f[p % MaxVariedPixels]] :
        f \in [0..(MaxVariedPixels - 1) -> SourceIdChoices]}

CounterChoices == {0, 4}

Called(fn, arg, out) == [fn |-> fn, arg |-> arg, out |-> out]

PureStep(fn, arg, out) ==
    /\ call = NoCall
    /\ call' = Called(fn, arg, out)
    /\ lastOp' = Op(fn)
    /\ UNCHANGED <<doc, loadResult, renderVars, api, webgl, editor>>

InitPure ==
    /\ lastOp = Op("init")
    /\ IdleLoad /\ IdleRender /\ IdleApi /\ IdleWebGL /\ IdleCanvas

\* this.reassignIds(sourceIdMatrix, flipParity) with this.nextPixelId = next
ReassignIds ==
    \E sourceIdMatrix \in SourceMatrices, flipParity \in BOOLEAN, next \in CounterChoices :
        PureStep("reassignIds",
                 [sourceIdMatrix |-> sourceIdMatrix, flipParity |-> flipParity,
                  nextPixelId |-> next],
                 reassignIds(sourceIdMatrix, flipParity, next))

NextReassign == ReassignIds

SpecReassign == InitPure /\ [][NextReassign]_vars

\* =========================================================== SpecShader
\* The fragment shader's evaluateNode applied to one sample position of one
\* node of a valid graph.  The graphs have the node ids 0, 1, ... in order
\* (so that the uniform slot of a node is its id); each node after the root
\* takes each parent from the root and the node before it, and all nodes of
\* a graph carry the same transform parameters.
ShaderParamChoices ==
    {("radial_count" :> 2) @@ ("radial_radius" :> 1),
     ("scale" :> 1) @@ ("rotation" :> 90)}

ShaderElems(k, params) ==
    IF k = 1 THEN {"id" :> 0}
    ELSE {("id" :> (k - 1)) @@ ("base_parent" :> b) @@ ("transform_parent" :> t) @@ params :
            b \in {0, k - 2}, t \in {0, k - 2}}

RECURSIVE ShaderNodeLists(_, _)
ShaderNodeLists(k, params) ==
    IF k = 0 THEN {<<>>}
    ELSE {Append(ns, e) : ns \in ShaderNodeLists(k - 1, params), e \in ShaderElems(k, params)}

\* the uniforms uploadGraphData hands to the shader for a graph
ShaderUniforms(g) == WebGL_uploadGraphData([WebGL_initial EXCEPT !.currentGraph = g]).uniforms

Coords == (-MaxCoord)..MaxCoord

InitShader ==
    /\ lastOp = Op("init")
    /\ doc = NoDoc /\ loadResult = NoResult
    /\ IdleRender /\ IdleApi /\ IdleWebGL /\ IdleCanvas
    /\ \E g \in {fromJSON(NodesDoc(ns)).graph :
                    ns \in UNION {ShaderNodeLists(k, params) :
                                    k \in 1..MaxShaderNodes, params \in ShaderParamChoices}} :
          \E nodeId \in DOMAIN g.node : \E x \in Coords, y \in Coords :
              call = Called("", [graph |-> g, nodeId |-> nodeId, pos |-> <<x, y>>], <<>>)

\* fragColor for one sample: evaluateNode(u_targetNodeId, mathCoord)
ShaderEvaluate ==
    /\ call.fn = ""
    /\ call' = Called("evaluateNode", call.arg,
                       evaluateNode(ShaderUniforms(call.arg.graph), call.arg.nodeId,
                                    call.arg.pos))
    /\ lastOp' = Op("evaluateNode")
    /\ UNCHANGED <<doc, loadResult, renderVars, api, webgl, editor>>

NextShader == ShaderEvaluate

SpecShader == InitShader /\ [][NextShader]_vars

\* ========================================================== SpecPalette
\* One ColorPalette: setBaseColor with any seed, getColorForLayer with any
\* depth.  A seed is a number that stands for a saturated base colour;
\* entry i of the palette generated from a seed is the pair <<seed, i>>
\* (the 4 colours of the tetrad and their 6 x 4 variants differ from one
\* another for such a seed).
generateColorPalette(baseColorHex) == [i \in 0..(PaletteLength - 1) |-> <<baseColorHex, i>>]

NewColorPalette(baseColor) ==
    [baseColor |-> baseColor, palette |-> generateColorPalette(baseColor)]

setBaseColor(cp, colorHex) ==
    [cp EXCEPT !.baseColor = colorHex, !.palette = generateColorPalette(colorHex)]

\* this.palette[...] of ColorPalette.getColorForLayer
paletteColorForLayer(cp, depth) == cp.palette[getColorForLayer(depth)]

Seeds == 1..MaxSeed

InitPalette ==
    /\ lastOp = Op("init")
    /\ doc = NoDoc /\ loadResult = NoResult
    /\ IdleRender /\ IdleApi /\ IdleWebGL /\ IdleCanvas
    /\ call = Called("ColorPalette", [cp |-> NewColorPalette(1), depth |-> Null], <<>>)

SetBaseColor ==
    \E colorHex \in Seeds :
        /\ colorHex # call.arg.cp.baseColor
        /\ call' = Called("setBaseColor",
                           [cp |-> setBaseColor(call.arg.cp, colorHex), depth |-> Null], <<>>)
        /\ lastOp' = Op("setBaseColor")
        /\ UNCHANGED <<doc, loadResult, renderVars, api, webgl, editor>>

GetColorForLayer ==
    \E depth \in 0..MaxDepth :
        /\ call.fn # "getColorForLayer"
        /\ call' = Called("getColorForLayer", [cp |-> call.arg.cp, depth |-> depth],
                           paletteColorForLayer(call.arg.cp, depth))
        /\ lastOp' = Op("getColorForLayer")
        /\ UNCHANGED <<doc, loadResult, renderVars, api, webgl, editor>>

NextPalette == SetBaseColor \/ GetColorForLayer

SpecPalette == InitPalette /\ [][NextPalette]_vars

\* =========================================================== SpecExport
\* The canvas editor loads one document and exports the graph.  The
\* documents are a root, or a root and one node with both parents the root;
\* an element may carry a comment (1 and 2 stand for two strings), the
\* root a scale, the other node one of a few parameter sets.
CommentChoices == {EmptyFn, "comment" :> 1, "comment" :> 2}

ExportParamChoices ==
    {EmptyFn, "scale" :> 0, "scale" :> 1, "scale" :> -2,
     ("radial_count" :> 2) @@ ("radial_radius" :> 1), "rotation" :> 90}

ExportDocs ==
    LET roots == {("id" :> 0) @@ c @@ p : c \in CommentChoices, p \in {EmptyFn, "scale" :> 1}}
        others == {("id" :> 1) @@ ("base_parent" :> 0) @@ ("transform_parent" :> 0) @@ c @@ p :
                      c \in CommentChoices, p \in ExportParamChoices}
    IN {NodesDoc(<<r>>) : r \in roots} \cup {NodesDoc(<<r, n>>) : r \in roots, n \in others}

InitExport ==
    /\ lastOp = Op("init")
    /\ doc = NoDoc /\ loadResult = NoResult
    /\ IdleRender /\ IdleApi /\ IdleWebGL /\ IdleCanvas
    /\ \E d \in ExportDocs : \E colorEnabled \in BOOLEAN :
          call = Called("", [doc |-> d, colorEnabled |-> colorEnabled], <<>>)

\* import of call.arg.doc, then a click on exportJsonButton
ImportThenExport ==
    /\ call.fn = ""
    /\ LET s == Canvas_loadGraph(editor, call.arg.doc) IN
           /\ editor' = s
           /\ call' = Called("export", call.arg,
                              [loaded |-> s.error = NoError,
                               exportData |-> exportJson(s, call.arg.colorEnabled)])
    /\ lastOp' = Op("export")
    /\ UNCHANGED <<doc, loadResult, renderVars, api, webgl>>

NextExport == ImportThenExport

SpecExport == InitExport /\ [][NextExport]_vars

\* ======================================================== SpecTransform
\* The two inverse transforms of the program, each applied to one position
\* for one copy index of one parameter set: the shader's
\* inverseTransformForCopy and the source position of the identity-matrix
\* resampler.  Scales are 0.5, 1.0 and 2.0.
TransformParams ==
    [scale : {1, ScaleOne, 2 * ScaleOne}, radialRadius : 0..MaxRadius,
     radialCount : {0, 1, 2, 4}, rotation : {0, 90, 180, 270}]

CopyIndices(n) == 0..(IF n.radialCount > 0 THEN n.radialCount - 1 ELSE 0)

\* the uniforms that hold the parameters n in slot 0
OneSlot(n) ==
    [nodeCount |-> 1,
     nodes |-> << [baseParent |-> -1, transformParent |-> -1, scale |-> n.scale,
                   radialRadius |-> n.radialRadius, radialCount |-> n.radialCount,
                   rotation |-> n.rotation] >>]

InitTransform ==
    /\ lastOp = Op("init")
    /\ doc = NoDoc /\ loadResult = NoResult
    /\ IdleRender /\ IdleApi /\ IdleWebGL /\ IdleCanvas
    /\ \E n \in TransformParams : \E i \in CopyIndices(n) : \E x \in Coords, y \in Coords :
          call = Called("", [n |-> n, i |-> i, p |-> <<x, y>>], <<>>)

\* inverseTransformForCopy(p, nodeId, i) in the shader
InverseTransform ==
    /\ call.fn = ""
    /\ call' = Called("inverseTransformForCopy", call.arg,
                       inverseTransformForCopy(OneSlot(call.arg.n), call.arg.p, 0, call.arg.i))
    /\ lastOp' = Op("inverseTransformForCopy")
    /\ UNCHANGED <<doc, loadResult, renderVars, api, webgl, editor>>

\* the source position transformIdMatrixDirect computes for the destination
\* position p (taken relative to the canvas centre) and copy i
Resample ==
    /\ call.fn = ""
    /\ call' = Called("transformIdMatrixDirect", call.arg,
                       resampleForCopy(<<call.arg.p[1] + center, call.arg.p[2] + center>>,
                                       call.arg.n.scale, call.arg.n.radialRadius,
                                       call.arg.n.radialCount, call.arg.n.rotation, call.arg.i))
    /\ lastOp' = Op("transformIdMatrixDirect")
    /\ UNCHANGED <<doc, loadResult, renderVars, api, webgl, editor>>

NextTransform == InverseTransform \/ Resample

SpecTransform == InitTransform /\ [][NextTransform]_vars

\* ============================================================ SpecStack
\* The stack evaluator of shaders-new.js run on one target node and sample
\* position, one loop iteration per step.  The uniform slots include cycles
\* and self-references: the shader reads whatever was uploaded.  Slot 0 is
\* the root or its own parent twice, slot 1 takes each parent from "none",
\* slot 0 and itself, a later slot from "none" and the slot before it.  All
\* slots carry the scale 1.0 and two radial copies at radius 1.
StackParents(k) ==
    IF k = 0 THEN {<<-1, -1>>, <<0, 0>>}
    ELSE IF k = 1 THEN {<<b, t>> : b \in {-1, 0, 1}, t \in {-1, 0, 1}}
    ELSE {<<b, t>> : b \in {-1, k - 1}, t \in {-1, k - 1}}

StackSlots(k) ==
    {[baseParent |-> p[1], transformParent |-> p[2], scale |-> ScaleOne,
      radialRadius |-> 1, radialCount |-> 2, rotation |-> 0] : p \in StackParents(k)}

StackUniforms ==
    UNION {{[nodeCount |-> n, nodes |-> nodes] :
               nodes \in {f \in [1..n -> UNION {StackSlots(k) : k \in 0..(n - 1)}] :
                             \A i \in 1..n : f[i] \in StackSlots(i - 1)}} :
              n \in 1..MaxStackNodes}

StackPositions == {<<0, 0>>, <<3, 1>>}

InitStack ==
    /\ lastOp = Op("init")
    /\ doc = NoDoc /\ loadResult = NoResult
    /\ IdleRender /\ IdleApi /\ IdleWebGL /\ IdleCanvas
    /\ \E u \in StackUniforms : \E nodeId \in 0..(u.nodeCount - 1) : \E pos \in StackPositions :
          call = Called("shaders-new.evaluateNode", [u |-> u, nodeId |-> nodeId, pos |-> pos],
                        stackStart(nodeId, pos))

\* the loop guard and one iteration of the while loop
StackIterate ==
    /\ ~call.out.done
    /\ call' = [call EXCEPT !.out = stackStep(call.arg.u, call.out)]
    /\ lastOp' = Op("iterate")
    /\ UNCHANGED <<doc, loadResult, renderVars, api, webgl, editor>>

NextStack == StackIterate

SpecStack == InitStack /\ [][NextStack]_vars

\* ============================================================ SpecGraph
\* A Graph object driven through its own operations.
\* the parent ids include one that no node can carry
ApiNodes ==
    {DefaultNode(id, b, t) : id \in 0..MaxApiId,
                             b \in 0..(MaxApiId + 1) \cup {Null},
                             t \in 0..(MaxApiId + 1) \cup {Null}}

InitGraph ==
    /\ lastOp = Op("init")
    /\ IdleLoad /\ IdleRender /\ IdleWebGL /\ IdleCanvas
    /\ api = NewApi

\* graph.addNode(node)
GraphAddNode(node) ==
    /\ api' = [api EXCEPT !.graph = addNode(api.graph, node)]
    /\ lastOp' = Did("addNode", node.id, "", FALSE)
    /\ UNCHANGED <<loadVars, renderVars, webgl, editor>>

\* graph.validate()
GraphValidate ==
    /\ api' = validate(api.graph)
    /\ lastOp' = Did("validate", Null, validate(api.graph).err, FALSE)
    /\ UNCHANGED <<loadVars, renderVars, webgl, editor>>

NextGraph ==
    \/ \E node \in ApiNodes : GraphAddNode(node)
    \/ GraphValidate

SpecGraph == InitGraph /\ [][NextGraph]_vars

\* ============================================================ SpecWebGL
\* The WebGL editor under the events its page can deliver.
ScaleInputs == {1, ScaleOne}
RadialRadiusInputs == {0, 1}
RadialCountInputs == {0, 2}
RotationInputs == {0, 90}

InitWebGL ==
    /\ lastOp = Op("init")
    /\ IdleLoad /\ IdleRender /\ IdleApi /\ IdleCanvas
    /\ webgl = WebGL_initial

WebGLStep(op, s) ==
    /\ webgl' = s
    /\ lastOp' = Op(op)
    /\ UNCHANGED <<loadVars, renderVars, api, editor>>

WNodeSelect == \E value \in webgl.nodeOptions \cup {Null} :
    WebGLStep("select", WebGL_nodeSelectChange(webgl, value))

WCreateNode ==
    /\ newNodeId(webgl.currentGraph) <= MaxId
    /\ WebGLStep("create", WebGL_createNode(webgl))

WDeleteNode ==
    /\ ~webgl.deleteDisabled
    /\ WebGLStep("delete", WebGL_deleteNode(webgl))

\* newGraphButton 'click', confirmed
WNewGraph == WebGLStep("new", WebGL_render(WebGL_initializeNewGraph(webgl)))

\* a slider 'input' or a parent select 'change'; edits counts them
WProperty(property, value) ==
    /\ webgl.editorVisible
    /\ webgl.edits < MaxEdits
    /\ WebGLStep(property, WebGL_updateNodeProperty(
                    [webgl EXCEPT !.edits = @ + 1], property, value))

WScale == \E value \in ScaleInputs : WProperty("scale", value)
WRadialRadius == \E value \in RadialRadiusInputs : WProperty("radialRadius", value)
WRadialCount == \E value \in RadialCountInputs : WProperty("radialCount", value)
WRotation == \E value \in RotationInputs : WProperty("rotation", value)
WBaseParent == \E value \in webgl.parentOptions \cup {Null} : WProperty("baseParent", value)
WTransformParent ==
    \E value \in webgl.parentOptions \cup {Null} : WProperty("transformParent", value)

\* supersampleSlider 'input'
WSupersample == \E value \in 1..MaxSupersample :
    WebGLStep("supersample", WebGL_render([webgl EXCEPT !.supersampleFactor = value]))

\* one turn of the animation loop
WAnimate == WebGLStep("animate", WebGL_render(webgl))

NextWebGL ==
    \/ WNodeSelect
    \/ WCreateNode
    \/ WDeleteNode
    \/ WNewGraph
    \/ WScale
    \/ WRadialRadius
    \/ WRadialCount
    \/ WRotation
    \/ WBaseParent
    \/ WTransformParent
    \/ WSupersample
    \/ WAnimate

SpecWebGL == InitWebGL /\ [][NextWebGL]_vars

\* ============================================================ SpecCanvas
\* The canvas editor under the events its page can deliver.
\* the documents that can be loaded: a root with a scaled radial node, and
\* the two-node cycle
ExampleDocs ==
    {NodesDoc(<< "id" :> 0,
                 ("id" :> 1) @@ ("base_parent" :> 0) @@ ("transform_parent" :> 0)
                     @@ ("scale" :> 1) @@ ("radial_count" :> 2)
                     @@ ("radial_radius" :> 1) >>),
     NodesDoc(<< ("id" :> 0) @@ ("base_parent" :> 1),
                 ("id" :> 1) @@ ("base_parent" :> 0) >>)}

InitCanvas ==
    /\ lastOp = Op("init")
    /\ IdleLoad /\ IdleRender /\ IdleApi /\ IdleWebGL
    /\ editor = Canvas_initial

\* both identity counters are below the cap
IdsLeft ==
    /\ rendererOrNew(editor.renderer).nextPixelId <= MaxPixelId
    /\ rendererOrNew(editor.fullsizeRenderer).nextPixelId <= MaxPixelId

CanvasStep(op, s) ==
    /\ IdsLeft
    /\ editor' = s
    /\ lastOp' = Op(op)
    /\ UNCHANGED <<loadVars, renderVars, api, webgl>>

\* nodeSelect 'change', or (for a node id) a click on the node's thumbnail
CNodeSelect == \E nodeId \in editor.nodeOptions \cup {Null} :
    CanvasStep("select", Canvas_nodeSelectChange(editor, nodeId))

CCreateNode ==
    /\ Max(DOMAIN editor.currentGraph.node) < MaxId
    /\ CanvasStep("create", Canvas_createNode(editor))

CDeleteNode ==
    /\ editor.editorVisible /\ ~editor.controlsDisabled
    /\ CanvasStep("delete", Canvas_deleteNode(editor))

CProperty(property, value) ==
    /\ editor.editorVisible /\ ~editor.controlsDisabled
    /\ editor.edits < MaxEdits
    /\ CanvasStep(property, Canvas_setProperty([editor EXCEPT !.edits = @ + 1],
                                               property, value))

CScale == \E value \in ScaleInputs : CProperty("scale", value)
CRadialRadius == \E value \in RadialRadiusInputs : CProperty("radialRadius", value)
CRadialCount == \E value \in RadialCountInputs : CProperty("radialCount", value)
CRotation == \E value \in RotationInputs : CProperty("rotation", value)
CBaseParent == \E value \in editor.parentOptions : CProperty("baseParent", value)
CTransformParent == \E value \in editor.parentOptions : CProperty("transformParent", value)

CLoad == \E jsonData \in ExampleDocs : CanvasStep("load", Canvas_loadGraph(editor, jsonData))

CNewGraph == CanvasStep("new", Canvas_initializeNewGraph(editor))

CClearCache == CanvasStep("clearCache", Canvas_clearCaches(editor))

NextCanvas ==
    \/ CNodeSelect
    \/ CCreateNode
    \/ CDeleteNode
    \/ CScale
    \/ CRadialRadius
    \/ CRadialCount
    \/ CRotation
    \/ CBaseParent
    \/ CTransformParent
    \/ CLoad
    \/ CNewGraph
    \/ CClearCache

SpecCanvas == InitCanvas /\ [][NextCanvas]_vars

\* ============================================ the Graph invariants, stated
\* independently of validate (reachability over the parent edges)
Parents(g, n) == {g.node[n].baseParent, g.node[n].transformParent} \ {Null}

RECURSIVE Closure(_, _)
Closure(g, S) ==
    LET T == S \cup UNION {Parents(g, n) : n \in S \cap DOMAIN g.node}
    IN IF T = S THEN S ELSE Closure(g, T)

\* the nodes reachable from n over one or more parent edges
Ancestors(g, n) == Closure(g, Parents(g, n))

Roots(g) == {n \in DOMAIN g.node : isRoot(g.node[n])}

OneRoot(g) == Cardinality(Roots(g)) = 1
NoSelfParent(g) == \A n \in DOMAIN g.node : n \notin Parents(g, n)
ReferencesResolve(g) == \A n \in DOMAIN g.node : Parents(g, n) \subseteq DOMAIN g.node
Acyclic(g) == \A n \in DOMAIN g.node : n \notin Ancestors(g, n)
Connected(g) == \A n \in DOMAIN g.node \ Roots(g) : Ancestors(g, n) \cap Roots(g) # {}
NonNegative(g) == \A n \in DOMAIN g.node : g.node[n].scale >= 0 /\ g.node[n].radialRadius >= 0

GraphInvariants(g) ==
    /\ OneRoot(g)
    /\ NoSelfParent(g)
    /\ ReferencesResolve(g)
    /\ Acyclic(g)
    /\ Connected(g)
    /\ NonNegative(g)

\* ------------------------------------------------ properties of a document
Parentless(e) == ~Has(e, "base_parent") /\ ~Has(e, "transform_parent")

ParentlessCount(d) == Cardinality({i \in 1..Len(d.nodes) : Parentless(d.nodes[i])})

AllHaveIds(d) == \A i \in 1..Len(d.nodes) : Has(d.nodes[i], "id")

DistinctIds(d) ==
    /\ AllHaveIds(d)
    /\ \A i, j \in 1..Len(d.nodes) : i # j => d.nodes[i].id # d.nodes[j].id

NoNegativeParameter(d) ==
    \A i \in 1..Len(d.nodes) :
        /\ Has(d.nodes[i], "scale") => d.nodes[i].scale >= 0
        /\ Has(d.nodes[i], "radial_radius") => d.nodes[i].radial_radius >= 0

DocIds(d) == {d.nodes[i].id : i \in {j \in 1..Len(d.nodes) : Has(d.nodes[j], "id")}}

DocReferencesResolve(d) ==
    \A i \in 1..Len(d.nodes) :
        /\ Has(d.nodes[i], "base_parent") => d.nodes[i].base_parent \in DocIds(d)
        /\ Has(d.nodes[i], "transform_parent") => d.nodes[i].transform_parent \in DocIds(d)

NamesItselfAsBase(d) ==
    \E i \in 1..Len(d.nodes) :
        /\ Has(d.nodes[i], "id") /\ Has(d.nodes[i], "base_parent")
        /\ d.nodes[i].base_parent = d.nodes[i].id

NamesItselfAsParent(d) ==
    \E i \in 1..Len(d.nodes) :
        /\ Has(d.nodes[i], "id")
        /\ \/ Has(d.nodes[i], "base_parent") /\ d.nodes[i].base_parent = d.nodes[i].id
           \/ Has(d.nodes[i], "transform_parent") /\ d.nodes[i].transform_parent = d.nodes[i].id

\* the graph the elements describe, without any check (distinct ids assumed)
DocGraph(d) ==
    [order |-> [i \in 1..Len(d.nodes) |-> d.nodes[i].id],
     node |-> [n \in DocIds(d) |->
                 LET e == d.nodes[CHOOSE i \in 1..Len(d.nodes) : d.nodes[i].id = n] IN
                 [baseParent |-> IF Has(e, "base_parent") THEN e.base_parent ELSE Null,
                  transformParent |-> IF Has(e, "transform_parent")
                                      THEN e.transform_parent ELSE Null]],
     rootNode |-> Null]

Loaded == loadResult.done /\ loadResult.err = ""
Failed(kind) == loadResult.done /\ loadResult.err = kind

\* {nodes:[{id:0,base_parent:1},{id:1,base_parent:0}]}
CycleDoc ==
    [hasNodes |-> TRUE,
     nodes |-> << ("id" :> 0) @@ ("base_parent" :> 1), ("id" :> 1) @@ ("base_parent" :> 0) >>]

\* {nodes:[{id:0,base_parent:0}]}
SelfDoc == [hasNodes |-> TRUE, nodes |-> << ("id" :> 0) @@ ("base_parent" :> 0) >>]

\* ================================================================ C1
\* C1: every graph that Graph.fromJSON returns (instead of throwing) has
\* exactly one root, no self-parent, only resolving parent ids, no cycle over
\* the parent edges, a parent path from every non-root node to the root, and
\* non-negative scale and radialRadius; every node is filed under its own id.
C1_LoadedGraphValid ==
    Loaded =>
        /\ GraphInvariants(loadResult.graph)
        /\ \A n \in DOMAIN loadResult.graph.node : loadResult.graph.node[n].id = n
        /\ loadResult.graph.rootNode \in Roots(loadResult.graph)

\* a three-node graph was returned in which some node has two different parents
C1_Witness ==
    /\ Loaded
    /\ Cardinality(DOMAIN loadResult.graph.node) = 3
    /\ \E n \in DOMAIN loadResult.graph.node :
          /\ loadResult.graph.node[n].baseParent # Null
          /\ loadResult.graph.node[n].transformParent # Null
          /\ loadResult.graph.node[n].baseParent # loadResult.graph.node[n].transformParent

\* ================================================================ C2
\* C2 as stated: loading any document whose nodes array holds zero, or two or
\* more, parentless elements fails with the root-count error.
C2_Original ==
    (loadResult.done /\ doc.hasNodes /\ ParentlessCount(doc) # 1)
        => loadResult.err = "RootCountError"

\* C2 as amended: the same, for documents whose elements all carry an id, carry
\* pairwise different ids, and have no negative scale or radial_radius.
C2_RootCount ==
    (loadResult.done /\ doc.hasNodes /\ ParentlessCount(doc) # 1
        /\ DistinctIds(doc) /\ NoNegativeParameter(doc))
        => loadResult.err = "RootCountError"

\* a document with two parentless elements was refused with the root-count error
C2_Witness ==
    /\ Failed("RootCountError")
    /\ DistinctIds(doc)
    /\ ParentlessCount(doc) = 2
    /\ Len(doc.nodes) = 3

\* ================================================================ C3
\* C3 as stated: loading {nodes:[{id:0,base_parent:1},{id:1,base_parent:0}]}
\* fails with the cycle error and no other.
C3_Original == (loadResult.done /\ doc = CycleDoc) => loadResult.err = "CycleError"

\* C3 as amended: that document fails with the root-count error (neither node
\* is parentless and the root count is checked first); the cycle error is what
\* a document reports that has distinct ids, no negative parameter, exactly one
\* parentless element, resolving parent ids none of which is the node's own id,
\* and a cycle over its parent edges.
C3_CycleRejection ==
    /\ (loadResult.done /\ doc = CycleDoc) => loadResult.err = "RootCountError"
    /\ (loadResult.done /\ doc.hasNodes /\ DistinctIds(doc) /\ NoNegativeParameter(doc)
          /\ ParentlessCount(doc) = 1 /\ DocReferencesResolve(doc)
          /\ ~NamesItselfAsParent(doc) /\ ~Acyclic(DocGraph(doc)))
        => loadResult.err = "CycleError"

\* a root plus a two-node cycle was refused with the cycle error
C3_Witness ==
    /\ Failed("CycleError")
    /\ DistinctIds(doc) /\ ParentlessCount(doc) = 1 /\ ~NamesItselfAsParent(doc)
    /\ Len(doc.nodes) = 3

\* ================================================================ C4
\* C4 as stated: loading a document with a node that names its own id as
\* base_parent fails with the self-reference error and no other.
C4_Original ==
    (loadResult.done /\ doc.hasNodes /\ NamesItselfAsBase(doc))
        => loadResult.err = "SelfReferenceError"

\* C4 as amended: when the ids are distinct such a document fails; the single
\* node {id:0,base_parent:0} fails with the root-count error; the error is the
\* self-reference error when moreover no parameter is negative, exactly one
\* element is parentless and every parent id names an element.
C4_SelfReference ==
    /\ (loadResult.done /\ doc.hasNodes /\ NamesItselfAsBase(doc) /\ DistinctIds(doc))
        => loadResult.err # ""
    /\ (loadResult.done /\ doc = SelfDoc) => loadResult.err = "RootCountError"
    /\ (loadResult.done /\ doc.hasNodes /\ NamesItselfAsBase(doc) /\ DistinctIds(doc)
          /\ NoNegativeParameter(doc) /\ ParentlessCount(doc) = 1
          /\ DocReferencesResolve(doc))
        => loadResult.err = "SelfReferenceError"

\* a root plus a node that is its own base parent was refused as a self-reference
C4_Witness ==
    /\ Failed("SelfReferenceError")
    /\ NamesItselfAsBase(doc) /\ DistinctIds(doc) /\ ParentlessCount(doc) = 1

\* ================================================================ C5
\* the nodes that name id as a parent
Dependents(g, id) ==
    {n \in DOMAIN g.node : g.node[n].baseParent = id \/ g.node[n].transformParent = id}

\* C5 as stated, for the WebGL editor with a valid graph: a click on delete
\* while the selected node is a parent of some other node reports the
\* dangling-reference error and leaves the node map as it was.
C5_DeleteRejected ==
    [][(lastOp'.op = "delete" /\ webgl.selectedNodeId # Null
          /\ GraphInvariants(webgl.currentGraph)
          /\ Dependents(webgl.currentGraph, webgl.selectedNodeId) \ {webgl.selectedNodeId} # {})
        => /\ webgl'.error = "DanglingReferenceError"
           /\ webgl'.currentGraph.node = webgl.currentGraph.node]_vars

\* ================================================================ C6
\* C6 as stated, for Graph.addNode: when the graph with the node added fails
\* validation, the node map after addNode is the node map before it.
C6_AddNodeRejected ==
    [][(lastOp'.op = "addNode" /\ validate(api'.graph).err # "")
        => api'.graph.node = api.graph.node]_vars

\* ================================================================ C7
\* C7 as stated, for the WebGL editor: in every reachable state the current
\* graph satisfies the Graph invariants.
C7_EditorGraphValid == GraphInvariants(webgl.currentGraph)

\* ================================================================ C8
\* two layer lists that differ at most in the identities they carry
SameLayers(a, b) ==
    /\ Len(a) = Len(b)
    /\ \A k \in DOMAIN a :
          /\ a[k].depth = b[k].depth
          /\ a[k].path = b[k].path
          /\ \A p \in Pixels : (a[k].idMatrix[p] = Sentinel) <=> (b[k].idMatrix[p] = Sentinel)

\* the layer list a new Renderer computes for the node from graph g
FreshLayers(g, id) == getNodeLayers(setGraph(NewRenderer), g, g.node[id], 1)

\* what the cache holds for the nodes of g is what g now gives
CacheCurrent(r, g) ==
    \A id \in DOMAIN r.layerCache \cap DOMAIN g.node :
        /\ FreshLayers(g, id).threw = ""
        /\ SameLayers(r.layerCache[id], FreshLayers(g, id).layers)

\* C8 as stated, for the canvas editor: after every operation the thumbnail
\* Renderer's layer cache holds no entry computed before the last change of
\* the graph, so that the layer list cached for a node of the graph is the
\* one the current graph gives.
C8_CacheCurrent ==
    editor.renderer # <<>> => CacheCurrent(editor.renderer[1], editor.currentGraph)

\* ---------------------------------------------------------------- C9
TransformEdges(path) == Cardinality({i \in DOMAIN path : path[i] = "transform"})

\* the node the parent path leads to, Null when it leaves the graph
RECURSIVE PathEnd(_, _, _)
PathEnd(g, id, path) ==
    IF id = Null \/ ~hasNode(g, id) THEN Null
    ELSE IF path = <<>> THEN id
    ELSE PathEnd(g, IF Head(path) = "base" THEN g.node[id].baseParent
                    ELSE g.node[id].transformParent, Tail(path))

\* C9: between two cache clears a Renderer completes the computation of each
\* node id's layer list at most once (whether the list is asked for by one
\* child, by two children, as both parents of one child or by a later
\* renderNode), and a renderNode of a node that is in the cache returns
\* without throwing, leaves the cache as it is and allocates no identity.
C9_ComputedOnce ==
    [][/\ \A id \in DOMAIN renderer'.computed : renderer'.computed[id] <= 1
       /\ (lastOp'.op = "renderNode" /\ lastOp'.hit)
            => /\ lastOp'.out = ""
               /\ renderer'.layerCache = renderer.layerCache
               /\ renderer'.nextPixelId = renderer.nextPixelId]_vars

\* a node whose two parents are the same node has been rendered, and then a
\* node already in the cache was rendered again
C9_Witness ==
    /\ lastOp.op = "renderNode" /\ lastOp.hit
    /\ \E id \in DOMAIN renderer.layerCache :
          /\ rGraph.node[id].baseParent # Null
          /\ rGraph.node[id].baseParent = rGraph.node[id].transformParent
          /\ rGraph.node[id].baseParent # rGraph.rootNode
    /\ renderer.nextPixelId > 2

\* --------------------------------------------------------------- C10
\* C10: in every layer of every cached layer list of a valid graph, each
\* identity other than the sentinel has the parity of the number of
\* transform-parent edges on the layer's parent path, and that path leads
\* from the node to the root.
C10_Parity ==
    \A id \in DOMAIN renderer.layerCache :
        \A k \in DOMAIN renderer.layerCache[id] :
            /\ PathEnd(rGraph, id, renderer.layerCache[id][k].path) = rGraph.rootNode
            /\ \A p \in Pixels :
                  renderer.layerCache[id][k].idMatrix[p] # Sentinel
                    => renderer.layerCache[id][k].idMatrix[p] % 2
                         = TransformEdges(renderer.layerCache[id][k].path) % 2

\* a cached layer reached over two transform-parent edges and one reached
\* over exactly one, both with pixels that carry an identity
C10_Witness ==
    \E id \in DOMAIN renderer.layerCache :
        /\ \E k \in DOMAIN renderer.layerCache[id] :
              /\ TransformEdges(renderer.layerCache[id][k].path) = 2
              /\ \E p \in Pixels : renderer.layerCache[id][k].idMatrix[p] # Sentinel
        /\ \E k \in DOMAIN renderer.layerCache[id] :
              /\ TransformEdges(renderer.layerCache[id][k].path) = 1
              /\ "base" \in {renderer.layerCache[id][k].path[i] :
                               i \in DOMAIN renderer.layerCache[id][k].path}
              /\ \E p \in Pixels : renderer.layerCache[id][k].idMatrix[p] # Sentinel

\* --------------------------------------------------------------- C11
\* the identities held by a layer list, and by the layers of the cache
LayerIds(layers) == UNION {uniqueIds(layers[k].idMatrix) : k \in DOMAIN layers}

CacheIds(r) == UNION {LayerIds(r.layerCache[id]) : id \in DOMAIN r.layerCache}

\* the identities a step has put into the cache
AllocatedIds == CacheIds(renderer') \ CacheIds(renderer)

\* C11: across renderNode, clearCache and the settings operations the
\* counter nextPixelId is even and never decreases; the identities a step
\* allocates lie one in each pair {c, c+1} for the even values c from the
\* counter before the step up to the counter after it, so the counter
\* advances by exactly 2 per identity and each identity is the counter at
\* its allocation plus a parity of 0 or 1.  (A render that throws keeps the
\* identities of the layer lists it completed; those it allocated for the
\* list it abandoned are in no cached layer.)
C11_Counter ==
    [][/\ renderer'.nextPixelId % 2 = 0
       /\ renderer'.nextPixelId >= renderer.nextPixelId
       /\ \A v \in AllocatedIds : v >= renderer.nextPixelId /\ v < renderer'.nextPixelId
       /\ \A v, w \in AllocatedIds : v # w => v \div 2 # w \div 2
       /\ 2 * Cardinality(AllocatedIds) <= renderer'.nextPixelId - renderer.nextPixelId
       /\ lastOp'.out = ""
            => 2 * Cardinality(AllocatedIds) = renderer'.nextPixelId - renderer.nextPixelId
       /\ lastOp'.op \in {"clearCache", "setGraph", "setColorModes", "setUseColor",
                          "setColorPalette"}
            => renderer'.nextPixelId = renderer.nextPixelId]_vars

\* after a cache clear and a change of the colour modes, a render has
\* allocated identities of both parities from a counter that kept its value
C11_Witness ==
    /\ lastOp.op = "renderNode" /\ ~lastOp.hit /\ lastOp.out = ""
    /\ renderer.colorModes # DefaultColorModes
    /\ CacheIds(renderer) # {}
    /\ \A v \in CacheIds(renderer) : v >= 2
    /\ \E v, w \in CacheIds(renderer) : v % 2 = 0 /\ w % 2 = 1

\* --------------------------------------------------------------- C12
\* C12: reassignIds gives two pixels the same new identity exactly when
\* they had the same source identity; a pixel is the sentinel after it
\* exactly when it was before; each new identity has the parity of its
\* source when flipParity is false and the other parity when it is true.
C12_Reassign ==
    call.fn = "reassignIds" =>
        \A p, q \in Pixels :
            /\ (call.out.idMatrix[p] = call.out.idMatrix[q])
                  <=> (call.arg.sourceIdMatrix[p] = call.arg.sourceIdMatrix[q])
            /\ (call.out.idMatrix[p] = Sentinel) <=> (call.arg.sourceIdMatrix[p] = Sentinel)
            /\ call.out.idMatrix[p] # Sentinel =>
                  call.out.idMatrix[p] % 2 =
                     (IF call.arg.flipParity THEN 1 - (call.arg.sourceIdMatrix[p] % 2)
                      ELSE call.arg.sourceIdMatrix[p] % 2)

\* a flipping call on a matrix with a transparent pixel, two source
\* identities of the same parity and a third of the other parity
C12_Witness ==
    /\ call.fn = "reassignIds" /\ call.arg.flipParity
    /\ {call.arg.sourceIdMatrix[p] : p \in Pixels} = {Sentinel, 0, 2}
    /\ call.arg.nextPixelId > 0

\* --------------------------------------------------------------- C13
\* the Renderer a first render of the node would leave: a new Renderer with
\* the same graph and the same colour settings
FirstRender(id) ==
    renderNode([setGraph(NewRenderer) EXCEPT !.colorModes = renderer.colorModes,
                                             !.useColor = renderer.useColor],
               rGraph, rGraph.node[id]).r

\* C13 as stated: whatever the Renderer rendered or cleared before, a render
\* of a node gives the identities, and in every colour mode the colours,
\* that a first render of that node gives.
C13_Reproducible ==
    (lastOp.op = "renderNode" /\ lastOp.out = "") =>
        /\ renderer.lastIdMatrix = FirstRender(lastOp.id).lastIdMatrix
        /\ applyFinalColors(renderer, renderer.lastIdMatrix)
             = applyFinalColors(renderer, FirstRender(lastOp.id).lastIdMatrix)

\* --------------------------------------------------------------- C14
\* the regions of an id matrix: each pixel with the first pixel that carries
\* its identity, transparent pixels apart
Regions(m) ==
    [p \in Pixels |-> IF m[p] = Sentinel THEN Sentinel
                      ELSE CHOOSE q \in Pixels : m[q] = m[p] /\ \A u \in 0..(q - 1) : m[u] # m[p]]

\* two id matrices with the same regions: the same transparent pixels, and
\* two pixels share an identity in one exactly when they do in the other
SameRegions(a, b) == Regions(a) = Regions(b)

\* layers is the list getNonRootLayers builds for node from the lists b of
\* its base parent and t of its transform parent
BaseThenTransform(node, layers, b, t) ==
    /\ Len(layers) = Len(b) + Len(t)
    /\ \A k \in 1..Len(b) :
          /\ layers[k].depth = b[k].depth
          /\ SameRegions(layers[k].idMatrix, b[k].idMatrix)
    /\ \A k \in 1..Len(t) :
          /\ layers[Len(b) + k].depth = t[k].depth + 1
          /\ SameRegions(layers[Len(b) + k].idMatrix,
                         applyTransformations(t[k].idMatrix, node.scale, node.radialRadius,
                                              node.radialCount, node.rotation))

\* C14: the cached layer list of the root is one layer of depth 0; the
\* cached list of any other node is the list of its base parent, in order
\* and with the same depths and regions, followed by the list of its
\* transform parent, in order, each layer transformed and one deeper.
C14_LayerOrder ==
    \A id \in DOMAIN renderer.layerCache :
        IF isRoot(rGraph.node[id])
        THEN Len(renderer.layerCache[id]) = 1 /\ renderer.layerCache[id][1].depth = 0
        ELSE /\ rGraph.node[id].baseParent \in DOMAIN renderer.layerCache
             /\ rGraph.node[id].transformParent \in DOMAIN renderer.layerCache
             /\ BaseThenTransform(rGraph.node[id], renderer.layerCache[id],
                                  renderer.layerCache[rGraph.node[id].baseParent],
                                  renderer.layerCache[rGraph.node[id].transformParent])

\* a cached node with a scaled transform whose parents both have two layers
C14_Witness ==
    \E id \in DOMAIN renderer.layerCache :
        /\ ~isRoot(rGraph.node[id])
        /\ Len(renderer.layerCache[rGraph.node[id].baseParent]) = 2
        /\ Len(renderer.layerCache[rGraph.node[id].transformParent]) = 2
        /\ rGraph.node[id].scale # ScaleOne

\* --------------------------------------------------------------- C15
\* the recursive definition: a node is its base parent at the position,
\* with the inverted best copy of its transform parent at the inverse
\* positions drawn over it; the root is the circle
RECURSIVE value(_, _, _)
RECURSIVE bestCopy(_, _, _, _, _)
bestCopy(g, id, pos, i, best) ==
    IF i >= (IF g.node[id].radialCount = 0 THEN 1 ELSE g.node[id].radialCount) THEN best
    ELSE bestCopy(g, id, pos, i + 1,
                  better(best, value(g, g.node[id].transformParent,
                                     inverseTransformForCopy(ShaderUniforms(g), pos, id, i))))

value(g, id, pos) ==
    IF id = Null THEN Vec2(0, 0)
    ELSE IF isRoot(g.node[id]) THEN evaluateRootCircle(pos)
    ELSE composite(value(g, g.node[id].baseParent, pos),
                   IF g.node[id].transformParent = Null THEN Vec2(0, 0)
                   ELSE invertColor(bestCopy(g, id, pos, 0, Vec2(0, 0))))

\* C15 as stated: for a valid graph, the value evaluateNode returns for a
\* node and a position is the value of the recursive definition.
C15_PointwiseEquivalent ==
    call.fn = "evaluateNode" =>
        call.out.value = value(call.arg.graph, call.arg.nodeId, call.arg.pos)


\* C16: the stack evaluator always returns: every test of its loop guard
\* that enters the body counts one iteration, the count never exceeds
\* MAX_ITERATIONS, the stack never holds more than MAX_STACK frames and no
\* index used on stack or resultStack reaches MAX_STACK; an evaluation that
\* has not returned after MAX_ITERATIONS iterations returns at the next test.
StackRunning == call.fn = "shaders-new.evaluateNode"

C16_Bounded ==
    StackRunning =>
        /\ call.out.iterations <= MAX_ITERATIONS
        /\ Len(call.out.stack) <= MAX_STACK
        /\ call.out.maxIndex < MAX_STACK
        /\ \A i \in DOMAIN call.out.resultStack : i >= 0 /\ i < MAX_STACK
        /\ (~call.out.done /\ call.out.iterations = MAX_ITERATIONS)
               => stackStep(call.arg.u, call.out).done

C16_Witness ==
    /\ StackRunning /\ call.out.done
    /\ call.out.exit = "overflow" /\ Len(call.out.stack) = MAX_STACK

C16_WitnessBudget ==
    /\ StackRunning /\ call.out.done
    /\ call.out.exit = "incomplete" /\ call.out.iterations = MAX_ITERATIONS


\* C17: an evaluation of the stack evaluator that ends because the stack is
\* full or the iteration budget is spent returns a value that is not
\* transparent and is not one of the values a pixel can legitimately have
\* (a colour 0 or 1 with an alpha 0 or 1).
LegitimatePixels == {Vec2(c, a) : c \in {0, 1}, a \in {0, 1}}

Exhausted ==
    /\ StackRunning /\ call.out.done
    /\ \/ call.out.exit = "overflow"
       \/ call.out.exit = "incomplete" /\ Len(call.out.stack) > 0

C17_ExhaustionExplicit ==
    Exhausted => (call.out.result.y # 0 /\ call.out.result \notin LegitimatePixels)


\* C18: for every copy index in range, each inverse transform is the exact
\* inverse of its forward transform, in both directions: the shader's
\* inverseTransformForCopy of the forward pipeline (scale, then the placement
\* of copy i with its per-copy rotation, then the node rotation), and the
\* resampler's source position of the canvas transform.  A direction is
\* compared where its scaling stays on the lattice.
forwardForCopy(n, p, i) ==
    LET scaled == << (n.scale * p[1]) \div ScaleOne, (n.scale * p[2]) \div ScaleOne >>
        userAngle == IF n.radialCount > 0 THEN (i * 360) \div n.radialCount ELSE 0
        turned == IF n.radialCount > 1 THEN rotate(scaled, userAngle) ELSE scaled
        placed == IF n.radialCount = 0 THEN scaled
                  ELSE << turned[1] + n.radialRadius * RootRadius * Cos90(userAngle - 90),
                          turned[2] + n.radialRadius * RootRadius * Sin90(userAngle - 90) >>
    IN rotate(placed, n.rotation)

ShaderInverseExact ==
    call.fn = "inverseTransformForCopy" =>
        /\ call.arg.n.scale <= ScaleOne
               => forwardForCopy(call.arg.n, call.out, call.arg.i) = call.arg.p
        /\ call.arg.n.scale >= ScaleOne
               => inverseTransformForCopy(OneSlot(call.arg.n),
                                          forwardForCopy(call.arg.n, call.arg.p, call.arg.i),
                                          0, call.arg.i) = call.arg.p

ResamplerInverseExact ==
    call.fn = "transformIdMatrixDirect" =>
        LET n == call.arg.n
            dest == <<call.arg.p[1] + center, call.arg.p[2] + center>>
        IN /\ n.scale <= ScaleOne
                  => canvasForward(call.out, n.scale, n.radialRadius, n.radialCount,
                                   n.rotation, call.arg.i) = dest
           /\ n.scale >= ScaleOne
                  => resampleForCopy(canvasForward(dest, n.scale, n.radialRadius, n.radialCount,
                                                   n.rotation, call.arg.i),
                                     n.scale, n.radialRadius, n.radialCount, n.rotation,
                                     call.arg.i) = dest

C18_ExactInverse == ShaderInverseExact /\ ResamplerInverseExact


\* C19: the export of a graph loaded from a document equals the document up
\* to the declared defaults: node by node the id, the parents, the scale (0
\* or absent read as 1.0), radial_radius, radial_count, rotation and the
\* comment are those of the document.
WithDefaults(e) ==
    [id |-> e.id,
     base_parent |-> IF Has(e, "base_parent") THEN e.base_parent ELSE Null,
     transform_parent |-> IF Has(e, "transform_parent") THEN e.transform_parent ELSE Null,
     scale |-> IF Has(e, "scale") /\ e.scale # 0 THEN e.scale ELSE ScaleOne,
     radial_radius |-> IF Has(e, "radial_radius") THEN e.radial_radius ELSE 0,
     radial_count |-> IF Has(e, "radial_count") THEN e.radial_count ELSE 0,
     rotation |-> IF Has(e, "rotation") THEN e.rotation ELSE 0,
     comment |-> IF Has(e, "comment") THEN e.comment ELSE Null]

SameUpToDefaults(d, e) ==
    /\ Len(d.nodes) = Len(e.nodes)
    /\ \A i \in 1..Len(d.nodes) : WithDefaults(d.nodes[i]) = WithDefaults(e.nodes[i])

C19_ExportRoundTrip ==
    (call.fn = "export" /\ call.out.loaded)
        => SameUpToDefaults(call.arg.doc, call.out.exportData)


\* C20 as stated: a document with a negative scale or a negative
\* radial_radius fails to load with the negative-parameter error.
C20_Original ==
    (loadResult.done /\ doc.hasNodes
        /\ \E i \in 1..Len(doc.nodes) :
               \/ Has(doc.nodes[i], "scale") /\ doc.nodes[i].scale < 0
               \/ Has(doc.nodes[i], "radial_radius") /\ doc.nodes[i].radial_radius < 0)
        => loadResult.err = "NegativeParameterError"

\* C20 as amended: on load a scale that is 0 or absent becomes 1.0 and any other
\* non-negative scale is kept; a document with a negative scale or a negative
\* radial_radius is never loaded, and when the element that carries it is
\* the first faulty element (every element before it has an id and no
\* negative parameter, and it has an id itself) the load fails with the
\* negative-parameter error; no node of a loaded graph has scale 0.
NegativeParameter(e) ==
    \/ Has(e, "scale") /\ e.scale < 0
    \/ Has(e, "radial_radius") /\ e.radial_radius < 0

\* element i is the last element of the document with its id
LastWithId(nodes, i) == \A j \in (i + 1)..Len(nodes) : nodes[j].id # nodes[i].id

C20_ScaleOnLoad ==
    (loadResult.done /\ doc.hasNodes) =>
        /\ \A i \in 1..Len(doc.nodes) :
               (/\ NegativeParameter(doc.nodes[i])
                /\ \A j \in 1..i : Has(doc.nodes[j], "id")
                /\ \A j \in 1..(i - 1) : ~NegativeParameter(doc.nodes[j]))
                   => loadResult.err = "NegativeParameterError"
        /\ loadResult.err = "" =>
               /\ \A i \in 1..Len(doc.nodes) :
                      /\ ~NegativeParameter(doc.nodes[i])
                      /\ LastWithId(doc.nodes, i) =>
                             loadResult.graph.node[doc.nodes[i].id].scale =
                                 IF Has(doc.nodes[i], "scale") /\ doc.nodes[i].scale # 0
                                 THEN doc.nodes[i].scale ELSE ScaleOne
               /\ \A n \in DOMAIN loadResult.graph.node : loadResult.graph.node[n].scale # 0

C20_Witness ==
    /\ loadResult.done /\ loadResult.err = "" /\ doc.hasNodes
    /\ \E i \in 1..Len(doc.nodes) :
           /\ Has(doc.nodes[i], "scale") /\ doc.nodes[i].scale = 0
           /\ loadResult.graph.node[doc.nodes[i].id].scale = ScaleOne
    /\ \E i \in 1..Len(doc.nodes) : Has(doc.nodes[i], "scale") /\ doc.nodes[i].scale = 1

\* --------------------------------------------------------------- C21
\* C21: a renderNode on a Renderer whose graph is not set ends with an
\* error, whichever node is asked for and whether or not it is in the cache.
C21_UnsetGraphFails ==
    (lastOp.op = "renderNode" /\ ~renderer.graphSet) => lastOp.out # ""

\* --------------------------------------------------------------- C22
\* C22: in the WebGL editor the uploaded uniform arrays are indexed by node
\* id: for every node of the graph, the slot the shader reads for the node's
\* id holds the node's parents and parameters, after every create-node and
\* delete-node operation that was accepted.
C22_SlotsById ==
    (lastOp.op \in {"create", "delete"} /\ webgl.error = "") =>
        \A id \in DOMAIN webgl.currentGraph.node :
            uniformAt(webgl.uniforms, id) = uniformSlot(webgl.currentGraph.node[id])

\* --------------------------------------------------------------- C23
\* C23: getColorForLayer returns, for the current seed, the palette entry
\* of the depth counted cyclically from the first entry at depth 0, one
\* entry per depth: depth d gives entry d modulo the palette length, so
\* that depths d and d + PaletteLength give the same colour.
C23_CyclicByDepth ==
    call.fn = "getColorForLayer" =>
        /\ call.out = generateColorPalette(call.arg.cp.baseColor)[call.arg.depth % PaletteLength]
        /\ call.out = paletteColorForLayer(call.arg.cp, call.arg.depth + PaletteLength)

\* --------------------------------------------------------------- C24
\* C24: in the stack evaluator a frame in phase 0 (NEED_BASE) whose base
\* parent is not the root pushes a frame for the base parent once: the
\* initial frame never pushes its base parent a second time, and when the
\* frame it pushed has been popped with a value, the next iteration leaves
\* the initial frame in phase 1 with that value as its base value.
C24_BasePushedOnce ==
    StackRunning =>
        /\ call.out.basePushes <= 1
        /\ (/\ ~call.out.done /\ call.out.basePushes = 1 /\ Len(call.out.stack) = 1
            /\ call.out.stack[1].phase = 0 /\ call.out.delivered # <<>>)
               => /\ Len(stackStep(call.arg.u, call.out).stack) = 1
                  /\ stackStep(call.arg.u, call.out).stack[1].phase = 1
                  /\ stackStep(call.arg.u, call.out).stack[1].baseResult = call.out.delivered[1]

\* --------------------------------------------------------------- C25
\* C25: a frame that has its base value and the winning transform sample
\* composites the base value with the colour-inverted winner and, when it is
\* the last frame on the stack, evaluateNode returns that composite.  Stated
\* for a target node both of whose parents are the root, whose frame is the
\* only frame of the evaluation.
C25_CompositeReturned ==
    (/\ StackRunning /\ call.out.done
     /\ ~isRootNode(call.arg.u, call.arg.nodeId)
     /\ uniformAt(call.arg.u, call.arg.nodeId).baseParent >= 0
     /\ uniformAt(call.arg.u, call.arg.nodeId).transformParent >= 0
     /\ isRootNode(call.arg.u, uniformAt(call.arg.u, call.arg.nodeId).baseParent)
     /\ isRootNode(call.arg.u, uniformAt(call.arg.u, call.arg.nodeId).transformParent))
        => /\ call.out.exit = "value"
           /\ call.out.result =
                 composite(evaluateRootCircle(call.arg.pos),
                           invertColor(rootSamples(call.arg.u, call.arg.pos, call.arg.nodeId,
                                                   0, Vec2(0, 0))))

\* --------------------------------------------------------------- C26
\* C26: while a frame iterates its radial copies the winner is the sample
\* with the highest alpha among the samples of the copies 0 .. radialCount-1
\* alone, and the frame's base value is not overwritten.  Stated for the
\* frame of a target node both of whose parents are the root, at the end of
\* the copies (transformValue = current.baseResult is then the winner).
C26_WinnerAmongSamples ==
    (/\ StackRunning /\ ~call.out.done /\ Len(call.out.stack) = 1
     /\ call.out.stack[1].phase = 1
     /\ uniformAt(call.arg.u, call.arg.nodeId).baseParent >= 0
     /\ uniformAt(call.arg.u, call.arg.nodeId).transformParent >= 0
     /\ isRootNode(call.arg.u, uniformAt(call.arg.u, call.arg.nodeId).baseParent)
     /\ isRootNode(call.arg.u, uniformAt(call.arg.u, call.arg.nodeId).transformParent)
     /\ call.out.stack[1].radialIndex = uniformAt(call.arg.u, call.arg.nodeId).radialCount)
        => call.out.stack[1].baseResult =
              rootSamples(call.arg.u, call.arg.pos, call.arg.nodeId, 0, Vec2(0, 0))

\* --------------------------------------------------------------- C27
\* C27: for a valid graph whose parent chains have at most 32 edges the
\* pass-based evaluateNode makes the target node ready and returns its value;
\* it does not end in the fallback.
C27_TargetReady == call.fn = "evaluateNode" => ~call.out.fallback


\* =========================================================== SpecCycles
\* Graph.detectCycles and Graph.validate called on node maps in which every
\* parent reference resolves; the nodes are added in any order (getAllNodes
\* iterates the Map in insertion order).
CycleIds == 0..(MaxCycleNodes - 1)
CycleParents == CycleIds \cup {Null}
CycleOrders ==
    {o \in [1..MaxCycleNodes -> CycleIds] : \A i, j \in 1..MaxCycleNodes : o[i] = o[j] => i = j}

RECURSIVE addNodes(_, _, _, _, _)
addNodes(g, o, b, t, i) ==
    IF i > Len(o) THEN g
    ELSE addNodes(addNode(g, DefaultNode(o[i], b[o[i]], t[o[i]])), o, b, t, i + 1)

InitCycles ==
    /\ lastOp = Op("init")
    /\ doc = NoDoc /\ loadResult = NoResult
    /\ IdleRender /\ IdleApi /\ IdleWebGL /\ IdleCanvas
    /\ \E o \in CycleOrders : \E b \in [CycleIds -> CycleParents] :
       \E t \in [CycleIds -> CycleParents] :
          call = Called("Graph", addNodes(NewGraph, o, b, t, 1), <<>>)

\* graph.detectCycles(); out is TRUE iff it throws
DetectCycles ==
    /\ call.fn = "Graph"
    /\ call' = Called("detectCycles", call.arg, detectCycles(call.arg))
    /\ lastOp' = Op("detectCycles")
    /\ UNCHANGED <<doc, loadResult, renderVars, api, webgl, editor>>

\* graph.validate(); out is the error it throws ("" when it returns)
ValidateMap ==
    /\ call.fn = "Graph"
    /\ call' = Called("validate", call.arg, validate(call.arg).err)
    /\ lastOp' = Op("validate")
    /\ UNCHANGED <<doc, loadResult, renderVars, api, webgl, editor>>

NextCycles == DetectCycles \/ ValidateMap

SpecCycles == InitCycles /\ [][NextCycles]_vars

\* --------------------------------------------------------------- C28
SelfReaching(g) == {n \in DOMAIN g.node : n \in Ancestors(g, n)}

\* a node with two different parents that lead to a common ancestor
Diamond(g) ==
    \E n \in DOMAIN g.node :
        /\ g.node[n].baseParent # Null /\ g.node[n].transformParent # Null
        /\ g.node[n].baseParent # g.node[n].transformParent
        /\ ({g.node[n].baseParent} \cup Ancestors(g, g.node[n].baseParent))
             \cap ({g.node[n].transformParent} \cup Ancestors(g, g.node[n].transformParent)) # {}

\* C28: on a node map whose parent references all resolve, detectCycles throws
\* exactly when some node reaches itself over base-parent and transform-parent
\* edges in any mix; a diamond without such a node is not reported.
C28_CycleIff ==
    call.fn = "detectCycles" => (call.out <=> SelfReaching(call.arg) # {})

\* a cycle that needs both edge kinds has been reported, ...
C28_WitnessMixed ==
    /\ call.fn = "detectCycles" /\ call.out = TRUE
    /\ call.arg.node[0].baseParent = 1 /\ call.arg.node[0].transformParent = Null
    /\ call.arg.node[1].baseParent = Null /\ call.arg.node[1].transformParent = 2
    /\ call.arg.node[2].baseParent = 0 /\ call.arg.node[2].transformParent = Null

\* ... and a diamond has passed
C28_WitnessDiamond ==
    /\ call.fn = "detectCycles" /\ call.out = FALSE
    /\ Diamond(call.arg)
    /\ call.arg.order = <<2, 1, 0>>


\* --------------------------------------------------------------- C29
\* C29: with a graph that passes Graph.validate bound to the Renderer,
\* renderNode of any of its nodes returns without throwing.
C29_ValidRenders ==
    (lastOp.op = "renderNode" /\ renderer.graphSet /\ validate(rGraph).err = "")
        => lastOp.out = ""


\* --------------------------------------------------------------- C30
\* the colour mode the first-index/last-index overrides prescribe for the
\* pixels of identity id ("inherit" leaves the parity mode in place)
overrideFor(r, idMatrix, id) ==
    {r.colorModes.firstIndex : i \in {0} \cap {idToColorIndex(idMatrix, id)}}
      \cup {r.colorModes.lastIndex :
              i \in {Cardinality(uniqueIds(idMatrix)) - 1} \cap {idToColorIndex(idMatrix, id)}}

\* C30: after a render, every pixel whose identity has colour index 0 carries
\* the colour of the firstIndex mode and every pixel whose identity has the
\* largest colour index carries the colour of the lastIndex mode, whenever
\* that mode is not "inherit", for even and odd identities alike.
C30_IndexOverrides ==
    (lastOp.op = "renderNode" /\ lastOp.out = "") =>
        \A p \in Pixels :
            LET id == renderer.lastIdMatrix[p] IN
            id # Sentinel =>
                \A mode \in overrideFor(renderer, renderer.lastIdMatrix, id) \ {"inherit"} :
                    applyFinalColors(renderer, renderer.lastIdMatrix)[p]
                      = getColorForMode(renderer, mode, id, id % 2,
                                        idToColorIndex(renderer.lastIdMatrix, id))



\* ============================================================ SpecPaint
\* A Renderer constructed with a colour palette (useColor is true from the
\* start), left with the colour modes of the constructor and used with one
\* valid graph whose nodes differ in their transformation parameters.
PaintParamChoices ==
    {"scale" :> 1, ("radial_count" :> 2) @@ ("radial_radius" :> 1)}

PaintElems(k) ==
    IF k = 1 THEN {"id" :> 0}
    ELSE {("id" :> (k - 1)) @@ b @@ t @@ p :
            b \in OptField("base_parent", 0..(MaxRenderNodes - 1)),
            t \in OptField("transform_parent", 0..(MaxRenderNodes - 1)),
            p \in PaintParamChoices}

RECURSIVE PaintNodeLists(_)
PaintNodeLists(k) ==
    IF k = 0 THEN {<<>>}
    ELSE {Append(ns, e) : ns \in PaintNodeLists(k - 1), e \in PaintElems(k)}

IsPaintGraph(g) ==
    \E k \in 1..MaxRenderNodes : \E ns \in PaintNodeLists(k) :
        /\ fromJSON(NodesDoc(ns)).err = ""
        /\ g = fromJSON(NodesDoc(ns)).graph

\* new Renderer(canvasSize, colorPalette)
NewRendererWithPalette == [NewRenderer EXCEPT !.useColor = TRUE]

InitPaint ==
    /\ lastOp = Op("init")
    /\ IdleLoad /\ IdleApi /\ IdleWebGL /\ IdleCanvas
    /\ IsPaintGraph(rGraph)
    /\ renderer = NewRendererWithPalette

NextPaint ==
    \/ SetGraph
    \/ \E id \in DOMAIN rGraph.node : RenderNode(id)
    \/ ClearCache

SpecPaint == InitPaint /\ [][NextPaint]_vars

\* --------------------------------------------------------------- C31
PaletteModes == {"regular", "alternative"}

\* the colour a palette mode gives to a pixel of the given depth
paletteColourOfDepth(r, mode, depth) ==
    getColorForMode(r, mode, 0, 0, depth)

\* C31: in the palette modes the colour of a pixel of a render is the palette
\* colour of its depth in the depth matrix, so that two pixels with the same
\* depth and the same parity have the same colour.
C31_ColourByDepth ==
    (lastOp.op = "renderNode" /\ lastOp.out = "") =>
        LET ids == renderer.lastIdMatrix
            depths == renderer.lastDepthMatrix
            colours == applyFinalColors(renderer, ids)
            palettePixels == {p \in Pixels : /\ ids[p] # Sentinel
                                             /\ pickColorMode(renderer, ids, ids[p]) \in PaletteModes}
        IN /\ \A p \in palettePixels :
                colours[p] = paletteColourOfDepth(renderer, pickColorMode(renderer, ids, ids[p]),
                                                  depths[p])
           /\ \A p, q \in palettePixels :
                (depths[p] = depths[q] /\ ids[p] % 2 = ids[q] % 2) => colours[p] = colours[q]


\* --------------------------------------------------------------- C32
\* every entry of the cache before a step is there, unchanged, after it
EntriesKept ==
    \A n \in DOMAIN renderer.layerCache :
        /\ n \in DOMAIN renderer'.layerCache
        /\ renderer'.layerCache[n] = renderer.layerCache[n]

\* C32: no operation changes a layer list stored in the cache (its layers,
\* identity matrices and depths); the entries change only by being added or
\* by clearCache removing all of them.
C32_CachedLayersKept ==
    [][\/ EntriesKept
       \/ lastOp'.op = "clearCache" /\ renderer'.layerCache = EmptyFn]_vars

\* a node has been computed from parents that were cached by an earlier
\* render, next to the entry of a node it does not depend on
C32_Witness ==
    /\ lastOp.op = "renderNode" /\ lastOp.out = "" /\ ~lastOp.hit
    /\ ~isRoot(rGraph.node[lastOp.id])
    /\ \E n \in DOMAIN renderer.layerCache :
          /\ ~isRoot(rGraph.node[n])
          /\ n # lastOp.id
          /\ n \notin Ancestors(rGraph, lastOp.id)


\* --------------------------------------------------------------- C33
\* the node and its ancestors over both parent edges
WithAncestors(g, n) == {n} \cup Ancestors(g, n)

\* the number of parent paths from a node to the root
RECURSIVE PathCount(_, _)
PathCount(g, n) ==
    IF isRoot(g.node[n]) THEN 1
    ELSE (IF g.node[n].baseParent # Null THEN PathCount(g, g.node[n].baseParent) ELSE 0)
       + (IF g.node[n].transformParent # Null THEN PathCount(g, g.node[n].transformParent) ELSE 0)

\* the layer counts of the nodes of S, added up
RECURSIVE SumOver(_, _)
SumOver(cache, S) ==
    IF S = {} THEN 0
    ELSE LET n == CHOOSE i \in S : TRUE
         IN Len(cache[n]) + SumOver(cache, S \ {n})

\* C33: a renderNode(N) that starts with an empty cache and returns leaves an entry for N
\* and each of its ancestors and for no other node, getCacheStats reports
\* that many nodes and the sum of their layer counts; after clearCache both
\* counts are 0.
C33_CacheContents ==
    [][/\ (renderer.layerCache = EmptyFn /\ lastOp'.op = "renderNode" /\ lastOp'.out = "")
            => /\ DOMAIN renderer'.layerCache = WithAncestors(rGraph, lastOp'.id)
               /\ getCacheStats(renderer').nodeCount
                    = Cardinality(WithAncestors(rGraph, lastOp'.id))
               /\ getCacheStats(renderer').totalLayers
                    = SumOver(renderer'.layerCache, WithAncestors(rGraph, lastOp'.id))
       /\ lastOp'.op = "clearCache"
            => /\ getCacheStats(renderer').nodeCount = 0
               /\ getCacheStats(renderer').totalLayers = 0]_vars

\* node 2 of the chain 0 <- 1 <- 2 has been rendered into an empty cache
C33_Witness ==
    /\ lastOp.op = "renderNode" /\ lastOp.out = "" /\ ~lastOp.hit /\ lastOp.id = 2
    /\ Ancestors(rGraph, 2) = {0, 1}
    /\ getCacheStats(renderer) = [nodeCount |-> 3, totalLayers |-> 7]
    /\ renderer.nextPixelId = 12


\* --------------------------------------------------------------- C34
\* the checks of validate that come before the connectivity check pass
EarlierChecksPass(g) ==
    /\ Len(rootNodes(g)) = 1
    /\ checkReferences(g, 1) = ""
    /\ ~detectCycles(g)

\* C34: on a node map that passes the root-count, reference, self-reference
\* and cycle checks of validate, canReachRoot is true for every non-root
\* node; validate never throws the "disconnected" error.
C34_ConnectivityNeverFails ==
    call.fn = "validate" =>
        /\ call.out # "DisconnectedNodeError"
        /\ EarlierChecksPass(call.arg) =>
              \A n \in DOMAIN call.arg.node :
                  ~isRoot(call.arg.node[n]) => canReachRoot(call.arg, n, {})

\* a map with a diamond and a node that has one parent only has reached the
\* connectivity check and passed it
C34_Witness ==
    /\ call.fn = "validate" /\ call.out = ""
    /\ EarlierChecksPass(call.arg)
    /\ call.arg.node[1].baseParent = 0 /\ call.arg.node[1].transformParent = Null
    /\ call.arg.node[2].baseParent = 1 /\ call.arg.node[2].transformParent = 0


\* --------------------------------------------------------------- C35
\* the identities of one layer
IdsOfLayer(layer) == uniqueIds(layer.idMatrix)

\* the layers of the cache, each named by its node and its place in the list
CachedLayers(r) ==
    UNION {{<<n, k>> : k \in DOMAIN r.layerCache[n]} : n \in DOMAIN r.layerCache}

\* C35: no two distinct layers of the cache contain the same identity, and
\* every identity a step allocates is at or above the counter, which lies
\* above every identity allocated before.
C35_FreshIdentities ==
    /\ [](/\ \A a, b \in CachedLayers(renderer) :
                a # b => IdsOfLayer(renderer.layerCache[a[1]][a[2]])
                           \cap IdsOfLayer(renderer.layerCache[b[1]][b[2]]) = {}
          /\ \A v \in CacheIds(renderer) : v < renderer.nextPixelId)
    /\ [][\A v \in AllocatedIds : v >= renderer.nextPixelId]_vars

\* the cache holds a node whose base and transform parent coincide and a
\* second child of that parent, all with pixels that carry an identity
C35_Witness ==
    \E n, m \in DOMAIN renderer.layerCache :
        /\ n # m
        /\ rGraph.node[n].baseParent # Null
        /\ rGraph.node[n].baseParent = rGraph.node[n].transformParent
        /\ rGraph.node[n].baseParent \in Parents(rGraph, m)
        /\ \A k \in DOMAIN renderer.layerCache[n] : IdsOfLayer(renderer.layerCache[n][k]) # {}
        /\ \A k \in DOMAIN renderer.layerCache[m] : IdsOfLayer(renderer.layerCache[m][k]) # {}
        /\ Len(renderer.layerCache[m]) >= 2


\* --------------------------------------------------------------- C36
\* the layers of the entries a step adds to the cache
NewLayerCount ==
    SumOver(renderer'.layerCache, DOMAIN renderer'.layerCache \ DOMAIN renderer.layerCache)

\* C36: every cached layer holds at most one identity; a cached node has one
\* layer for each parent path (a sequence of base and transform edges) from
\* it to the root; the buffer of a render holds at most as many identities
\* as the node has layers; and a step allocates at most one identity for
\* each layer it adds.
C36_OneIdentityPerLayer ==
    /\ [](/\ \A a \in CachedLayers(renderer) :
                Cardinality(IdsOfLayer(renderer.layerCache[a[1]][a[2]])) <= 1
          /\ \A n \in DOMAIN renderer.layerCache :
                /\ Len(renderer.layerCache[n]) = PathCount(rGraph, n)
                /\ \A j, k \in DOMAIN renderer.layerCache[n] :
                      j # k => renderer.layerCache[n][j].path # renderer.layerCache[n][k].path
          /\ (lastOp.op = "renderNode" /\ lastOp.out = "")
                => Cardinality(uniqueIds(renderer.lastIdMatrix))
                     <= Len(renderer.layerCache[lastOp.id]))
    /\ [][lastOp'.out = ""
            => renderer'.nextPixelId - renderer.nextPixelId <= 2 * NewLayerCount]_vars

\* a node with four parent paths to the root has been rendered; its buffer
\* shows fewer identities than it has layers, but more than one
C36_Witness ==
    /\ lastOp.op = "renderNode" /\ lastOp.out = ""
    /\ PathCount(rGraph, lastOp.id) = 4
    /\ Cardinality(uniqueIds(renderer.lastIdMatrix)) \in {2, 3}


\* --------------------------------------------------------------- C37
SettingsOps == {"setColorModes", "setColorPalette", "setUseColor"}

\* C37: clearCache leaves nextPixelId, the graph, the palette setting and the
\* colour modes as they are; setColorModes, setColorPalette and setUseColor
\* leave the layer cache and nextPixelId as they are.
C37_Frames ==
    [][/\ lastOp'.op = "clearCache"
            => /\ renderer'.nextPixelId = renderer.nextPixelId
               /\ renderer'.graphSet = renderer.graphSet
               /\ rGraph' = rGraph
               /\ renderer'.useColor = renderer.useColor
               /\ renderer'.colorModes = renderer.colorModes
       /\ lastOp'.op \in SettingsOps
            => /\ renderer'.layerCache = renderer.layerCache
               /\ renderer'.nextPixelId = renderer.nextPixelId]_vars

\* the cache has been cleared on a Renderer that had allocated identities
\* and had its colour modes and its palette set
C37_Witness ==
    /\ lastOp.op = "clearCache"
    /\ renderer.nextPixelId > 0
    /\ renderer.graphSet
    /\ renderer.useColor
    /\ renderer.colorModes # DefaultColorModes


\* --------------------------------------------------------------- C38
\* C38: the depth of every cached layer is the number of transform-parent
\* edges on its parent path, 0 when the path has base-parent edges only, and
\* the identity of the layer has the parity of that depth (depths stay far
\* below 256 here).
C38_DepthCountsTransformEdges ==
    \A a \in CachedLayers(renderer) :
        LET layer == renderer.layerCache[a[1]][a[2]] IN
        /\ layer.depth = TransformEdges(layer.path)
        /\ layer.depth < 256
        /\ (\A i \in DOMAIN layer.path : layer.path[i] = "base") => layer.depth = 0
        /\ \A v \in IdsOfLayer(layer) : v % 2 = layer.depth % 2

\* one cached list holds a layer reached over two base-parent edges and a
\* layer reached over two transform-parent edges, both with an identity
C38_Witness ==
    \E n \in DOMAIN renderer.layerCache :
        /\ \E k \in DOMAIN renderer.layerCache[n] :
              /\ renderer.layerCache[n][k].path = <<"base", "base">>
              /\ renderer.layerCache[n][k].depth = 0
              /\ IdsOfLayer(renderer.layerCache[n][k]) # {}
        /\ \E k \in DOMAIN renderer.layerCache[n] :
              /\ renderer.layerCache[n][k].path = <<"transform", "transform">>
              /\ renderer.layerCache[n][k].depth = 2
              /\ IdsOfLayer(renderer.layerCache[n][k]) # {}

====
